---- MODULE Spec2Model ----
(***************************************************************************)
(* A model of patternhunt: the compilation caches (patterns/cache.rs),     *)
(* the cached stat service (batch_io.rs), the synchronous walker           *)
(* (sync.rs), the streaming walker (async_glob.rs) and the facade          *)
(* (lib.rs).                                                               *)
(***************************************************************************)
EXTENDS Integers, Sequences, FiniteSets, TLC

VARIABLES
    \* ---- compilation caches (patterns/cache.rs) ----
    lru,          \* cache -> sequence of entries, most recently used first
    metrics,      \* cache -> [hits, misses, evictions, size]
    cacheMutex,   \* cache -> owner of GlobCache.cache / RegexCache.cache
    metricsMutex, \* cache -> owner of GlobCache.metrics / RegexCache.metrics
    cpc,          \* thread -> position inside the cache operation it runs
    cop,          \* thread -> the operation it runs
    cret,         \* thread -> what its last operation returned
    now,          \* Instant::now()
    ticks,        \* number of clock advances so far
    lookups,      \* cache -> number of get calls made (history)
    opsLeft,      \* number of cache operations that may still be called
    \* ---- stat service (batch_io.rs) ----
    metadata_cache, \* BatchIO.metadata_cache: entries, most recently used first
    statMutex,      \* owner of the metadata_cache mutex
    follow,         \* BatchIO.follow_symlinks
    spc,            \* thread -> position inside stat
    spath,          \* thread -> the path it stats
    smeta,          \* thread -> the metadata its filesystem query returned
    sret,           \* thread -> what its last stat returned
    fsQueries,      \* thread -> filesystem queries its current stat has made
    snow,           \* Instant::now() as the stat service reads it
    sticks,         \* number of clock advances so far
    statsLeft,      \* number of stat calls that may still be made
    \* ---- the walkers (sync.rs, async_glob.rs) and the facade (lib.rs) ----
    fsTree,           \* the nodes the filesystem holds
    opts,           \* GlobOptions
    patterns,       \* the compiled Patterns
    syncResult,     \* what glob_sync returned
    stack,          \* glob_stream: the (directory, depth) frames
    visited_links,  \* glob_stream: the visited set
    rd,             \* glob_stream: the entries the open directory has yet to list
    frame,          \* glob_stream: the (directory, depth) frame being listed
    entry,          \* glob_stream: the path of the entry being handled
    dpc,            \* glob_stream: the driver's position
    permits,        \* glob_stream: the permits the semaphore has available
    workers,        \* glob_stream: the spawned blocking tasks
    emitted,          \* glob_stream: the emitted yielded so far
    stream_cache,   \* glob_stream: the metadata cache of its BatchIO
    ioFaults,       \* glob_stream: the filesystem calls that may still fail
    dropped,        \* None, or Some(the tasks in flight when the stream was dropped)
    pushes,         \* the directories put on the stack so far, the root first
    roots,          \* PatternHunt::sync: the roots it was called with
    rootsLeft,      \* PatternHunt::sync: the roots still to process
    huntResults,        \* PatternHunt::sync: the huntResults so far, then its return value
    fpc,            \* PatternHunt::sync: position
    \* ---- brace expansion (patterns/brace.rs) ----
    braceInput,     \* the string brace::expand is called with
    braceResult,    \* what it returned
    \* ---- pattern compilation (patterns/mod.rs) ----
    cmInput,        \* the pattern list compile_many is called with
    cmLeft,         \* compile_many: the patterns its loop has yet to take
    cmGlobs,        \* compile_many: the globs added to builder
    cmRegexes,      \* compile_many: regexes
    cmResult,       \* what compile_many returned
    cmMatch,        \* the path is_match was asked about and its answer
    mmInput,        \* the pattern micromatch_to_regex is called with
    mmResult,       \* what micromatch_to_regex returned
    \* ---- predicates (predicates.rs) ----
    prInput,        \* the Predicates matches is called on
    prMeta,         \* the metadata it is called with
    prResult,       \* what it returned
    \* ---- get_or_compile_regex and set_ttl (patterns/cache.rs) ----
    gpc,            \* get_or_compile_regex: each thread's position
    gkey,           \* get_or_compile_regex: the pattern each thread passes
    gret,           \* get_or_compile_regex: what each thread got
    ttl_args,       \* the durations set_ttl was called with, in order
    clears,         \* the calls of clear_caches so far
    puts            \* per key, its last insertion: the instant, the set_ttl calls before it

cacheVars == <<lru, metrics, cacheMutex, metricsMutex, cpc, cop, cret, now,
               ticks, lookups, opsLeft>>

statVars == <<metadata_cache, statMutex, follow, spc, spath, smeta, sret,
              fsQueries, snow, sticks, statsLeft>>

configVars == <<fsTree, opts, patterns>>

walkVars == <<syncResult, stack, visited_links, rd, frame, entry, dpc, permits,
              workers, emitted, stream_cache, ioFaults, dropped,
              pushes>>

facadeVars == <<roots, rootsLeft, huntResults, fpc>>

braceVars == <<braceInput, braceResult>>

compileVars == <<cmInput, cmLeft, cmGlobs, cmRegexes, cmResult, cmMatch>>

microVars == <<mmInput, mmResult>>

predVars == <<prInput, prMeta, prResult>>

raceVars == <<gpc, gkey, gret, ttl_args, clears, puts>>

vars == <<cacheVars, statVars, configVars, walkVars, facadeVars, braceVars, compileVars,
          microVars, predVars, raceVars>>

----------------------------------------------------------------------------
\* Bounds of the model.
NumThreads == 2
MaxOps == 2
MaxSeqOps == 2
MaxTicks == 1
MaxStats == 3
MaxStatTicks == 1
MaxDepth == 2
MaxInflight == 2
MaxLen == 5
MaxNest == 11
MaxRange == 3
MaxPatterns == 2

MaxPatLen == 3

MaxFaults == 1
MaxSize == 2
MaxSetTtl == 1
MaxClears == 1

\* Program constants.
MAX_CACHE_SIZE == 1000
DEFAULT_TTL == 300
METADATA_CACHE_TTL == 30
STAT_CACHE_SIZE == 1000
MAX_EXPANSIONS == 1000
MAX_DEPTH == 10
MAX_REGEX_COMPLEXITY == 1000

Threads == 1..NumThreads
NoOwner == 0
Caches == {"glob", "regex"}

\* Keys the operations use: key 1, and a key above every key an initially
\* full cache holds.
OpKeys == {1, MAX_CACHE_SIZE + 1}

\* The clock advances by just under the TTL, or by exactly the TTL.
TickSteps == {DEFAULT_TTL - 1, DEFAULT_TTL}

----------------------------------------------------------------------------
\* lru::LruCache as the caches use it: a sequence, most recently used first.

\* The keys a cache holds.
SeqKeys(q) == {q[i].key : i \in 1..Len(q)}

LruContains(q, k) == \E i \in 1..Len(q) : q[i].key = k

LruIndex(q, k) == CHOOSE i \in 1..Len(q) : q[i].key = k

LruRemove(q, k) == SelectSeq(q, LAMBDA e : e.key # k)

\* LruCache::get promotes the entry it finds to most recently used.
LruPromote(q, k) == <<q[LruIndex(q, k)]>> \o LruRemove(q, k)

\* A mutant of LruPut: a key that is present is inserted once more.
LruPutAgain(q, e, cap) ==
    IF Len(q) >= cap THEN <<e>> \o SubSeq(q, 1, Len(q) - 1)
    ELSE <<e>> \o q

\* LruCache::put: an existing key is replaced and promoted; a new key in a
\* full cache displaces the least recently used entry (the last one).
LruPut(q, e, cap) ==
    IF LruContains(q, e.key) THEN <<e>> \o LruRemove(q, e.key)
    ELSE IF Len(q) >= cap THEN <<e>> \o SubSeq(q, 1, Len(q) - 1)
    ELSE <<e>> \o q

----------------------------------------------------------------------------
\* The bodies of GlobCache / RegexCache get, put and clear (both caches run
\* the same code), executed with both mutexes held.

\* A mutant of CacheGet: the expired branch returns without counting a miss.
CacheGetExpiredUncounted(q, m, k, t) ==
    IF LruContains(q, k)
    THEN LET q1 == LruPromote(q, k) IN
         IF Head(q1).expires_at > t
         THEN [cache |-> q1, metrics |-> [m EXCEPT !.hits = @ + 1], ret |-> "Some"]
         ELSE LET q2 == LruRemove(q1, k) IN
              [cache |-> q2,
               metrics |-> [m EXCEPT !.size = Len(q2), !.evictions = @ + 1],
               ret |-> "None"]
    ELSE [cache |-> q, metrics |-> [m EXCEPT !.misses = @ + 1], ret |-> "None"]

\* A mutant of CacheGet: an entry is still returned at its expiry instant.
CacheGetReturnsAtExpiry(q, m, k, t) ==
    IF LruContains(q, k)
    THEN LET q1 == LruPromote(q, k) IN
         IF Head(q1).expires_at >= t
         THEN [cache |-> q1, metrics |-> [m EXCEPT !.hits = @ + 1], ret |-> "Some"]
         ELSE LET q2 == LruRemove(q1, k) IN
              [cache |-> q2,
               metrics |-> [m EXCEPT !.size = Len(q2), !.evictions = @ + 1,
                                     !.misses = @ + 1],
               ret |-> "None"]
    ELSE [cache |-> q, metrics |-> [m EXCEPT !.misses = @ + 1], ret |-> "None"]

CacheGet(q, m, k, t) ==
    IF LruContains(q, k)
    THEN LET q1 == LruPromote(q, k) IN
         IF Head(q1).expires_at > t
         THEN [cache |-> q1, metrics |-> [m EXCEPT !.hits = @ + 1], ret |-> "Some"]
         ELSE LET q2 == LruRemove(q1, k) IN
              [cache |-> q2,
               metrics |-> [m EXCEPT !.size = Len(q2), !.evictions = @ + 1,
                                     !.misses = @ + 1],
               ret |-> "None"]
    ELSE [cache |-> q, metrics |-> [m EXCEPT !.misses = @ + 1], ret |-> "None"]

\* A mutant of CachePut: size counts insertions instead of reading cache.len().
CachePutCountsInsertions(q, m, k, t, ttl) ==
    LET q1 == LruPut(q, [key |-> k, expires_at |-> t + ttl], MAX_CACHE_SIZE) IN
    [cache |-> q1, metrics |-> [m EXCEPT !.size = @ + 1], ret |-> "Unit"]

CachePut(q, m, k, t, ttl) ==
    LET q1 == LruPut(q, [key |-> k, expires_at |-> t + ttl], MAX_CACHE_SIZE) IN
    [cache |-> q1, metrics |-> [m EXCEPT !.size = Len(q1)], ret |-> "Unit"]

\* The cache operations leave the rest of the program alone.
CacheFrame == UNCHANGED <<statVars, configVars, walkVars, facadeVars, braceVars, compileVars,
    microVars, predVars, raceVars>>

\* A mutant of CacheClear: every dropped entry is counted as an eviction.
CacheClearCountsEntries(q, m) ==
    [cache |-> <<>>,
     metrics |-> [m EXCEPT !.size = 0, !.evictions = @ + Len(q)],
     ret |-> "Unit"]

\* A mutant of CacheClear: the metrics start again from zero.
CacheClearResetsCounters(q, m) ==
    [cache |-> <<>>,
     metrics |-> [hits |-> 0, misses |-> 0, evictions |-> 1, size |-> 0],
     ret |-> "Unit"]

CacheClear(q, m) ==
    [cache |-> <<>>,
     metrics |-> [m EXCEPT !.size = 0, !.evictions = @ + 1],
     ret |-> "Unit"]

----------------------------------------------------------------------------
\* The mutexes an operation locks, in the order it locks them.

\* A mutant of LockOrder: clear locks the metrics before the cache.
LockOrderClearInverted(op) ==
    IF op = "metrics" THEN <<"metrics">>
    ELSE IF op = "clear" THEN <<"metrics", "cache">>
    ELSE <<"cache", "metrics">>

LockOrder(op) ==
    IF op = "metrics" THEN <<"metrics">> ELSE <<"cache", "metrics">>

Owner(c, mx) == IF mx = "cache" THEN cacheMutex[c] ELSE metricsMutex[c]

\* The mutexes of its cache that thread t holds, in the order it took them.
HeldBy(t) ==
    SelectSeq(LockOrder(cop[t].op), LAMBDA mx : Owner(cop[t].cache, mx) = t)

\* The mutexes thread t has still to take.
Wanted(t) ==
    SelectSeq(LockOrder(cop[t].op), LAMBDA mx : Owner(cop[t].cache, mx) # t)

NoCall == [op |-> "none", cache |-> "glob", key |-> 0, then |-> <<>>]

ZeroMetrics == [hits |-> 0, misses |-> 0, evictions |-> 0, size |-> 0]

\* The cache after n get_or_compile calls on the keys 1..n at time 0: every
\* call missed and inserted; key 1 is the least recently used.
FilledCache(n) == [i \in 1..n |-> [key |-> n + 1 - i, expires_at |-> DEFAULT_TTL]]

\* The caches after n insertions at time 0, with the threads of `active`
\* about to call up to `budget` operations.
CacheStart(n, active, budget) ==
    /\ lru = [c \in Caches |-> FilledCache(n)]
    /\ metrics = [c \in Caches |-> [ZeroMetrics EXCEPT !.misses = n, !.size = n]]
    /\ lookups = [c \in Caches |-> n]
    /\ cacheMutex = [c \in Caches |-> NoOwner]
    /\ metricsMutex = [c \in Caches |-> NoOwner]
    /\ cpc = [t \in Threads |-> IF t \in active THEN "idle" ELSE "off"]
    /\ cop = [t \in Threads |-> NoCall]
    /\ cret = [t \in Threads |-> "Unit"]
    /\ now = 0
    /\ ticks = 0
    /\ opsLeft = budget

\* Lazy::new(|| GlobCache::new(DEFAULT_TTL)): empty caches, used by all threads.
CacheInit == CacheStart(0, Threads, MaxOps)

\* One caller on caches that are full.
InitFills == {MAX_CACHE_SIZE}

CacheFullInit == \E n \in InitFills : CacheStart(n, {1}, MaxSeqOps)

\* A thread calls an operation of one of the caches.
Call(t, op, c, k) ==
    /\ cpc[t] = "idle"
    /\ opsLeft > 0
    /\ cpc' = [cpc EXCEPT ![t] = "acquire"]
    /\ cop' = [cop EXCEPT ![t] = [op |-> op, cache |-> c, key |-> k,
                                  then |-> IF op = "clear" THEN <<"regex">> ELSE <<>>]]
    /\ opsLeft' = opsLeft - 1
    /\ lookups' = IF op = "get" THEN [lookups EXCEPT ![c] = @ + 1] ELSE lookups
    /\ cret' = [cret EXCEPT ![t] = "Unit"]
    /\ UNCHANGED <<lru, metrics, cacheMutex, metricsMutex, now, ticks>>
    /\ CacheFrame

CallGet(t) == \E c \in Caches, k \in OpKeys : Call(t, "get", c, k)

CallPut(t) == \E c \in Caches, k \in OpKeys : Call(t, "put", c, k)

\* clear_caches(): GLOB_CACHE.clear(), then REGEX_CACHE.clear().
CallClear(t) == Call(t, "clear", "glob", 0)

CallMetrics(t) == \E c \in Caches : Call(t, "metrics", c, 0)

\* self.cache.lock() / self.metrics.lock(): the next mutex of the operation,
\* taken when it is free.
Acquire(t) ==
    /\ cpc[t] = "acquire"
    /\ LET c == cop[t].cache
           mx == Head(Wanted(t))
       IN /\ Owner(c, mx) = NoOwner
          /\ cacheMutex' = IF mx = "cache" THEN [cacheMutex EXCEPT ![c] = t]
                           ELSE cacheMutex
          /\ metricsMutex' = IF mx = "metrics" THEN [metricsMutex EXCEPT ![c] = t]
                             ELSE metricsMutex
          /\ cpc' = [cpc EXCEPT ![t] = IF Len(Wanted(t)) = 1 THEN "body" ELSE "acquire"]
    /\ UNCHANGED <<lru, metrics, cop, cret, now, ticks, lookups, opsLeft>>
    /\ CacheFrame

\* What the operation of thread t does once its mutexes are held.
Effect(t) ==
    LET c == cop[t].cache
        k == cop[t].key
    IN CASE cop[t].op = "get" -> CacheGet(lru[c], metrics[c], k, now)
         [] cop[t].op = "put" -> CachePut(lru[c], metrics[c], k, now, DEFAULT_TTL)
         [] cop[t].op = "clear" -> CacheClear(lru[c], metrics[c])
         [] OTHER -> [cache |-> lru[c], metrics |-> metrics[c], ret |-> metrics[c]]

Body(t) ==
    /\ cpc[t] = "body"
    /\ LET c == cop[t].cache
           r == Effect(t)
       IN /\ lru' = [lru EXCEPT ![c] = r.cache]
          /\ metrics' = [metrics EXCEPT ![c] = r.metrics]
          /\ cret' = [cret EXCEPT ![t] = r.ret]
    /\ cpc' = [cpc EXCEPT ![t] = "release"]
    /\ UNCHANGED <<cacheMutex, metricsMutex, cop, now, ticks, lookups, opsLeft>>
    /\ CacheFrame

\* The guards are dropped at the end of the function, the last taken first;
\* clear_caches then goes on to clear the next cache.
Release(t) ==
    /\ cpc[t] = "release"
    /\ LET c == cop[t].cache
           held == HeldBy(t)
           mx == held[Len(held)]
       IN /\ cacheMutex' = IF mx = "cache" THEN [cacheMutex EXCEPT ![c] = NoOwner]
                           ELSE cacheMutex
          /\ metricsMutex' = IF mx = "metrics" THEN [metricsMutex EXCEPT ![c] = NoOwner]
                             ELSE metricsMutex
          /\ cpc' = [cpc EXCEPT ![t] = IF Len(held) > 1 THEN "release"
                                       ELSE IF cop[t].then # <<>> THEN "acquire"
                                       ELSE "idle"]
          /\ cop' = IF Len(held) > 1 THEN cop
                    ELSE IF cop[t].then # <<>>
                    THEN [cop EXCEPT ![t].cache = Head(cop[t].then),
                                     ![t].then = Tail(cop[t].then)]
                    ELSE [cop EXCEPT ![t] = NoCall]
    /\ UNCHANGED <<lru, metrics, cret, now, ticks, lookups, opsLeft>>
    /\ CacheFrame

\* Time passes. The clock is read only by the body of get and put, so its
\* advance is observable only just before a body runs.
Tick ==
    /\ ticks < MaxTicks
    /\ \E t \in Threads : cpc[t] = "body"
    /\ \E d \in TickSteps : now' = now + d
    /\ ticks' = ticks + 1
    /\ UNCHANGED <<lru, metrics, cacheMutex, metricsMutex, cpc, cop, cret,
                   lookups, opsLeft>>
    /\ CacheFrame

ThreadStep(t) == Acquire(t) \/ Body(t) \/ Release(t)

CacheNext ==
    \/ \E t \in Threads : CallGet(t)
    \/ \E t \in Threads : CallPut(t)
    \/ \E t \in Threads : CallClear(t)
    \/ \E t \in Threads : CallMetrics(t)
    \/ \E t \in Threads : Acquire(t)
    \/ \E t \in Threads : Body(t)
    \/ \E t \in Threads : Release(t)
    \/ Tick

----------------------------------------------------------------------------
\* The filesystem: an unchanging tree. A node has a name inside its parent
\* directory, a kind, for a symlink its target, and the metadata the
\* predicates and the stat service read.

\* F applied to the value of e, which is computed once.
Bind(F(_), e) == CHOOSE r \in {F(v) : v \in {e}} : TRUE

NoNode == "none"

FsTable ==
    { [id |-> "root", parent |-> NoNode, name |-> "root", kind |-> "dir", target |-> NoNode,
       len |-> 0, readonly |-> FALSE, utf8 |-> TRUE, ext |-> "", mtime |-> 1, ctime |-> 1],
      [id |-> "a", parent |-> "root", name |-> "a.txt", kind |-> "file", target |-> NoNode,
       len |-> 1, readonly |-> FALSE, utf8 |-> TRUE, ext |-> "txt", mtime |-> 1, ctime |-> 1],
      [id |-> "b", parent |-> "root", name |-> "b.md", kind |-> "file", target |-> NoNode,
       len |-> 2, readonly |-> FALSE, utf8 |-> TRUE, ext |-> "md", mtime |-> 2, ctime |-> 1],
      [id |-> "d", parent |-> "root", name |-> "d", kind |-> "dir", target |-> NoNode,
       len |-> 0, readonly |-> FALSE, utf8 |-> TRUE, ext |-> "", mtime |-> 1, ctime |-> 1],
      [id |-> "c", parent |-> "d", name |-> "c.txt", kind |-> "file", target |-> NoNode,
       len |-> 2, readonly |-> FALSE, utf8 |-> TRUE, ext |-> "txt", mtime |-> 2, ctime |-> 2],
      [id |-> "e", parent |-> "d", name |-> "e", kind |-> "dir", target |-> NoNode,
       len |-> 0, readonly |-> FALSE, utf8 |-> TRUE, ext |-> "", mtime |-> 1, ctime |-> 1],
      [id |-> "f", parent |-> "e", name |-> "f.txt", kind |-> "file", target |-> NoNode,
       len |-> 1, readonly |-> FALSE, utf8 |-> TRUE, ext |-> "txt", mtime |-> 1, ctime |-> 2],
      [id |-> "lf", parent |-> "root", name |-> "lf.txt", kind |-> "symlink", target |-> "c",
       len |-> 0, readonly |-> FALSE, utf8 |-> TRUE, ext |-> "txt", mtime |-> 1, ctime |-> 1],
      [id |-> "ld", parent |-> "root", name |-> "ld", kind |-> "symlink", target |-> "e",
       len |-> 0, readonly |-> FALSE, utf8 |-> TRUE, ext |-> "", mtime |-> 1, ctime |-> 1],
      [id |-> "up", parent |-> "d", name |-> "up", kind |-> "symlink", target |-> "root",
       len |-> 0, readonly |-> FALSE, utf8 |-> TRUE, ext |-> "", mtime |-> 1, ctime |-> 1],
      [id |-> "ro", parent |-> "root", name |-> "ro.txt", kind |-> "file", target |-> NoNode,
       len |-> 2, readonly |-> TRUE, utf8 |-> TRUE, ext |-> "txt", mtime |-> 1, ctime |-> 1],
      [id |-> "nu", parent |-> "d", name |-> "nu.txt", kind |-> "file", target |-> NoNode,
       len |-> 1, readonly |-> FALSE, utf8 |-> FALSE, ext |-> "txt", mtime |-> 1, ctime |-> 1] }

NodeIds == {r.id : r \in FsTable}

Node(n) == Bind(LAMBDA id : CHOOSE r \in FsTable : r.id = id, n)

\* The node a symlink leads to; any other node itself.
FollowLink(n) == IF Node(n).kind = "symlink" THEN Node(n).target ELSE n

\* The entry called `name` of the directory that node dir is or links to.
ChildByName(tree, dir, name) ==
    IF dir = NoNode THEN NoNode
    ELSE Bind(LAMBDA a :
                IF Node(a.d).kind # "dir" THEN NoNode
                ELSE Bind(LAMBDA found : IF found = {} THEN NoNode
                                         ELSE CHOOSE n \in found : TRUE,
                          {n \in tree : Node(n).parent = a.d /\ Node(n).name = a.name}),
              [d |-> FollowLink(dir), name |-> name])

\* The node a path names, its last component not followed. A path is the
\* sequence of its components; the first one names the root directory.
RECURSIVE ResolveFrom(_, _, _)
ResolveFrom(tree, cur, comps) ==
    IF comps = <<>> \/ cur = NoNode THEN cur
    ELSE Bind(LAMBDA a : ResolveFrom(tree, a.cur, a.comps),
              [cur |-> ChildByName(tree, cur, Head(comps)), comps |-> Tail(comps)])

Lstat(tree, path) == ResolveFrom(tree, "root", Tail(path))

\* Path::is_symlink.
IsSymlink(tree, path) ==
    Bind(LAMBDA n : n # NoNode /\ Node(n).kind = "symlink", Lstat(tree, path))

\* fs::metadata: the metadata of what the path leads to, symlinks followed.
Metadata(tree, path) ==
    Bind(LAMBDA n :
           IF n = NoNode THEN [tag |-> "Err", err |-> "Io"]
           ELSE Bind(LAMBDA r :
                       [tag |-> "Ok",
                        meta |-> [len |-> r.len, kind |-> r.kind, readonly |-> r.readonly,
                                  mtime |-> r.mtime, ctime |-> r.ctime]],
                     Node(FollowLink(n))),
         Lstat(tree, path))

\* Path::is_dir: true for a directory and for a symlink to one.
IsDir(tree, path) ==
    Bind(LAMBDA m : m.tag = "Ok" /\ m.meta.kind = "dir", Metadata(tree, path))

----------------------------------------------------------------------------
\* BatchIO::stat, one position at a time.

FullTree == NodeIds

StatPaths == { <<"root", "a.txt">>, <<"root", "ro.txt">>, <<"root", "lf.txt">>,
               <<"root", "missing">> }

StatTickSteps == {METADATA_CACHE_TTL - 1, METADATA_CACHE_TTL}

NoResult == [tag |-> "None"]

NoMeta == [len |-> 0, kind |-> "none", readonly |-> FALSE, mtime |-> 0, ctime |-> 0]

\* The entries of the metadata cache are keyed by path.
StatEntry(path, meta, t) ==
    [key |-> path, metadata |-> meta, expires_at |-> t + METADATA_CACHE_TTL]

\* A mutant of StatHit: an entry still counts as live at its expiry instant.
StatHitAtExpiry(q, path, t) ==
    LruContains(q, path) /\ q[LruIndex(q, path)].expires_at >= t

\* cache.get(path) finds an entry that has not expired.
StatHit(q, path, t) ==
    LruContains(q, path) /\ q[LruIndex(q, path)].expires_at > t

\* The cache after the lookup: a live entry is promoted, an expired one popped.
StatAfterLookup(q, path, t) ==
    IF ~LruContains(q, path) THEN q
    ELSE IF StatHit(q, path, t) THEN LruPromote(q, path)
    ELSE LruRemove(q, path)

StatFrame == UNCHANGED <<cacheVars, configVars, walkVars, facadeVars, braceVars, compileVars,
    microVars, predVars, raceVars>>

StatInit ==
    /\ metadata_cache = <<>>
    /\ statMutex = NoOwner
    /\ follow \in BOOLEAN
    /\ spc = [t \in Threads |-> "idle"]
    /\ spath = [t \in Threads |-> <<>>]
    /\ smeta = [t \in Threads |-> NoMeta]
    /\ sret = [t \in Threads |-> NoResult]
    /\ fsQueries = [t \in Threads |-> 0]
    /\ snow = 0
    /\ sticks = 0
    /\ statsLeft = MaxStats

\* No thread uses the stat service.
StatIdle ==
    /\ metadata_cache = <<>>
    /\ statMutex = NoOwner
    /\ follow = FALSE
    /\ spc = [t \in Threads |-> "off"]
    /\ spath = [t \in Threads |-> <<>>]
    /\ smeta = [t \in Threads |-> NoMeta]
    /\ sret = [t \in Threads |-> NoResult]
    /\ fsQueries = [t \in Threads |-> 0]
    /\ snow = 0
    /\ sticks = 0
    /\ statsLeft = 0

\* The position a stat moves to when it returns r: the guard is dropped.
StatReturn(t, r) ==
    /\ sret' = [sret EXCEPT ![t] = r]
    /\ spc' = [spc EXCEPT ![t] = "idle"]
    /\ statMutex' = NoOwner

StatCall(t) ==
    /\ spc[t] = "idle"
    /\ statsLeft > 0
    /\ \E path \in StatPaths : spath' = [spath EXCEPT ![t] = path]
    /\ spc' = [spc EXCEPT ![t] = "lock"]
    /\ sret' = [sret EXCEPT ![t] = NoResult]
    /\ fsQueries' = [fsQueries EXCEPT ![t] = 0]
    /\ statsLeft' = statsLeft - 1
    /\ UNCHANGED <<metadata_cache, statMutex, follow, smeta, snow, sticks>>
    /\ StatFrame

\* let mut cache = self.metadata_cache.lock().unwrap();
StatLock(t) ==
    /\ spc[t] = "lock"
    /\ statMutex = NoOwner
    /\ statMutex' = t
    /\ spc' = [spc EXCEPT ![t] = "cached"]
    /\ UNCHANGED <<metadata_cache, follow, spath, smeta, sret, fsQueries, snow,
                   sticks, statsLeft>>
    /\ StatFrame

\* The cache check: a live entry is returned; otherwise the symlink check is
\* entered when symlinks are not followed, the metadata query when they are.
StatCheckCache(t) ==
    /\ spc[t] = "cached"
    /\ metadata_cache' = StatAfterLookup(metadata_cache, spath[t], snow)
    /\ IF StatHit(metadata_cache, spath[t], snow)
       THEN StatReturn(t, [tag |-> "Ok",
                           meta |-> metadata_cache[LruIndex(metadata_cache, spath[t])].metadata])
       ELSE /\ spc' = [spc EXCEPT ![t] = IF follow THEN "metadata" ELSE "is_symlink"]
            /\ UNCHANGED <<statMutex, sret>>
    /\ UNCHANGED <<follow, spath, smeta, fsQueries, snow, sticks, statsLeft>>
    /\ StatFrame

\* path.is_symlink() returns.
StatIsSymlink(t) ==
    /\ spc[t] = "is_symlink"
    /\ fsQueries' = [fsQueries EXCEPT ![t] = @ + 1]
    /\ IF IsSymlink(FullTree, spath[t])
       THEN StatReturn(t, [tag |-> "Err", err |-> "Other"])
       ELSE /\ spc' = [spc EXCEPT ![t] = "metadata"]
            /\ UNCHANGED <<statMutex, sret>>
    /\ UNCHANGED <<metadata_cache, follow, spath, smeta, snow, sticks, statsLeft>>
    /\ StatFrame

\* fs::metadata(path) returns.
StatMetadata(t) ==
    /\ spc[t] = "metadata"
    /\ fsQueries' = [fsQueries EXCEPT ![t] = @ + 1]
    /\ LET r == Metadata(FullTree, spath[t]) IN
       IF r.tag = "Err"
       THEN StatReturn(t, r) /\ UNCHANGED smeta
       ELSE /\ smeta' = [smeta EXCEPT ![t] = r.meta]
            /\ spc' = [spc EXCEPT ![t] = "finish"]
            /\ UNCHANGED <<statMutex, sret>>
    /\ UNCHANGED <<metadata_cache, follow, spath, snow, sticks, statsLeft>>
    /\ StatFrame

\* The permission check, the insertion into the cache and the return.
StatFinish(t) ==
    /\ spc[t] = "finish"
    /\ IF smeta[t].readonly
       THEN StatReturn(t, [tag |-> "Err", err |-> "PermissionDenied"])
            /\ UNCHANGED metadata_cache
       ELSE /\ metadata_cache' =
                  LruPut(metadata_cache, StatEntry(spath[t], smeta[t], snow), STAT_CACHE_SIZE)
            /\ StatReturn(t, [tag |-> "Ok", meta |-> smeta[t]])
    /\ UNCHANGED <<follow, spath, smeta, fsQueries, snow, sticks, statsLeft>>
    /\ StatFrame

StatTick ==
    /\ sticks < MaxStatTicks
    /\ \E d \in StatTickSteps : snow' = snow + d
    /\ sticks' = sticks + 1
    /\ UNCHANGED <<metadata_cache, statMutex, follow, spc, spath, smeta, sret,
                   fsQueries, statsLeft>>
    /\ StatFrame

StatNext ==
    \/ \E t \in Threads : StatCall(t)
    \/ \E t \in Threads : StatLock(t)
    \/ \E t \in Threads : StatCheckCache(t)
    \/ \E t \in Threads : StatIsSymlink(t)
    \/ \E t \in Threads : StatMetadata(t)
    \/ \E t \in Threads : StatFinish(t)
    \/ StatTick

----------------------------------------------------------------------------
\* Options, patterns and predicates. An Option is <<>> (None) or <<v>> (Some).

None == <<>>

Some(v) == <<v>>

IsPrefix(p, q) == Len(p) <= Len(q) /\ SubSeq(q, 1, Len(p)) = p

\* opts.root_dir.clone().unwrap_or_else(|| PathBuf::from("."))
RootOf(o) == IF o.root_dir = None THEN <<"root">> ELSE o.root_dir[1]

\* is_path_allowed (the same function in sync.rs and async_glob.rs).
is_path_allowed(path, root_dir) ==
    IF root_dir # None THEN IsPrefix(root_dir[1], path) ELSE TRUE

\* The extension of a file name.
NameExt(name) == Bind(LAMBDA s : (CHOOSE r \in FsTable : r.name = s).ext, name)

\* What a compiled glob or regex accepts, by the last component of the path.
TextMatches(pattern, path) ==
    CASE pattern \in {<<"*", "*", "/", "*", ".", "t", "x", "t">>, <<"*", ".", "t", "x", "t">>}
           -> NameExt(path[Len(path)]) = "txt"
      [] pattern = <<"*", "*">> -> TRUE
      [] pattern \in {<<"\\", ".", "m", "d", "$">>, <<"*", ".", "m", "d">>}
           -> NameExt(path[Len(path)]) = "md"
      [] OTHER -> FALSE

\* A mutant of is_match: any regex in the list counts as a match.
is_match_any_regex(p, path) ==
    \/ p.set # {} /\ \E g \in p.set : TextMatches(g, path)
    \/ p.regexes # <<>>

\* Patterns::is_match.
is_match(p, path) ==
    \/ p.set # {} /\ \E g \in p.set : TextMatches(g, path)
    \/ \E i \in 1..Len(p.regexes) : TextMatches(p.regexes[i], path)

\* A mutant of matches: only the minimum size is tested.
matches_min_size(pr, meta) ==
    pr.min_size # None => ~(meta.len < pr.min_size[1])

\* Predicates::matches.
matches(pr, meta) ==
    /\ pr.min_size # None => ~(meta.len < pr.min_size[1])
    /\ pr.max_size # None => ~(meta.len > pr.max_size[1])
    /\ pr.file_type # None =>
          /\ pr.file_type[1] = "File" => meta.kind = "file"
          /\ pr.file_type[1] = "Dir" => meta.kind = "dir"
          /\ pr.file_type[1] = "Symlink" => meta.kind = "symlink"
    /\ pr.mtime_after # None => ~(meta.mtime < pr.mtime_after[1])
    /\ pr.mtime_before # None => ~(meta.mtime > pr.mtime_before[1])
    /\ pr.ctime_after # None => ~(meta.ctime < pr.ctime_after[1])
    /\ pr.ctime_before # None => ~(meta.ctime > pr.ctime_before[1])

\* Utf8PathBuf::from_path_buf succeeds.
IsUtf8(tree, path) == Node(Lstat(tree, path)).utf8

\* BatchIO::stat run without interruption by one caller: what it returns and
\* the cache it leaves.
StatSeq(q, tree, path, t, fol) ==
    IF StatHit(q, path, t)
    THEN [ret |-> [tag |-> "Ok", meta |-> q[LruIndex(q, path)].metadata],
          cache |-> StatAfterLookup(q, path, t)]
    ELSE LET q1 == StatAfterLookup(q, path, t)
             r == Metadata(tree, path)
         IN IF ~fol /\ IsSymlink(tree, path)
            THEN [ret |-> [tag |-> "Err", err |-> "Other"], cache |-> q1]
            ELSE IF r.tag = "Err" THEN [ret |-> r, cache |-> q1]
            ELSE IF r.meta.readonly
            THEN [ret |-> [tag |-> "Err", err |-> "PermissionDenied"], cache |-> q1]
            ELSE [ret |-> r,
                  cache |-> LruPut(q1, StatEntry(path, r.meta, t), STAT_CACHE_SIZE)]

----------------------------------------------------------------------------
\* The synchronous walker (sync.rs) over walkdir::WalkDir.

\* The order in which a directory lists its entries.
DirOrder == <<"a", "b", "ro", "lf", "ld", "d", "c", "nu", "up", "e", "f">>

\* The entries of directory node dir, in listing order.
Entries(tree, dir) ==
    Bind(LAMBDA d : SelectSeq(DirOrder, LAMBDA n : n \in tree /\ Node(n).parent = d), dir)

\* DirEntry::path: the directory's path joined with the entry's name.
EntryPath(dir, n) == Append(dir, Node(n).name)

\* WalkDir::max_depth: the entries of a directory at depth d have depth d + 1
\* and are yielded only when d + 1 <= max_depth.
WalkDirDescends(depth, maxd) == maxd = None \/ depth < maxd[1]

\* WalkDir::new(root).follow_links(fol).max_depth(maxd): the items it yields,
\* in order. Each is an entry (path, depth) or, for a followed symlink that
\* leads back to a directory being walked, a loop error.
RECURSIVE WalkDirFrom(_, _, _, _, _, _), WalkDirChildren(_, _, _, _, _, _, _)
WalkDirFrom(tree, fol, maxd, path, depth, ancestors) ==
    Bind(LAMBDA a :
           LET linked == Node(a.n).kind = "symlink" /\ (fol \/ depth = 0)
               target == IF linked THEN FollowLink(a.n) ELSE a.n
               isdir == Node(target).kind = "dir"
           IN IF linked /\ isdir /\ target \in a.ancestors
              THEN << [tag |-> "Err", err |-> "Walkdir"] >>
              ELSE << [tag |-> "Ok", path |-> a.path, depth |-> a.depth] >>
                   \o (IF isdir /\ WalkDirDescends(a.depth, maxd)
                       THEN WalkDirChildren(tree, fol, maxd, a.path, a.depth + 1,
                                            a.ancestors \cup {target},
                                            Entries(tree, target))
                       ELSE <<>>),
         [n |-> Lstat(tree, path), path |-> path, depth |-> depth,
          ancestors |-> ancestors])

WalkDirChildren(tree, fol, maxd, dir, depth, ancestors, ents) ==
    Bind(LAMBDA a :
           IF a.ents = <<>> THEN <<>>
           ELSE WalkDirFrom(tree, fol, maxd, EntryPath(a.dir, Head(a.ents)),
                            a.depth, a.ancestors)
                \o WalkDirChildren(tree, fol, maxd, a.dir, a.depth, a.ancestors,
                                   Tail(a.ents)),
         [dir |-> dir, depth |-> depth, ancestors |-> ancestors, ents |-> ents])

\* A mutant of Propagate: the entry is skipped and the walk goes on.
Swallow(st, r) == [st EXCEPT !.cache = r.cache]

\* `batch_io.stat(p)?` on an error: glob_sync returns with it.
Propagate(st, r) == [st EXCEPT !.err = Some(r.ret.err), !.cache = r.cache]

\* One turn of the loop of glob_sync, for item it of the walk: the results,
\* the visited set and the metadata cache it leaves, and the error it
\* returns with, if any.
SyncTurn(tree, p, o, it, st) ==
    IF it.tag = "Err" THEN [st EXCEPT !.err = Some("Walkdir")]
    ELSE IF ~is_path_allowed(it.path, o.root_dir) THEN st
    ELSE IF o.follow_symlinks /\ it.path \in st.visited
    THEN [st EXCEPT !.err = Some("SymlinkCycle")]
    ELSE LET seen == IF o.follow_symlinks THEN [st EXCEPT !.visited = @ \cup {it.path}]
                     ELSE st
         IN IF IsDir(tree, it.path) \/ ~IsUtf8(tree, it.path) \/ ~is_match(p, it.path)
            THEN seen
            ELSE IF o.predicates = None
            THEN [seen EXCEPT !.results = Append(@, it.path)]
            ELSE LET r == StatSeq(st.cache, tree, it.path, 0, o.follow_symlinks)
                 IN IF r.ret.tag = "Err"
                    THEN Propagate(seen, r)
                    ELSE IF ~matches(o.predicates[1], r.ret.meta)
                    THEN [seen EXCEPT !.cache = r.cache]
                    ELSE [seen EXCEPT !.cache = r.cache,
                                      !.results = Append(@, it.path)]

\* The loop of glob_sync from item i of the walk on.
RECURSIVE SyncLoop(_, _, _, _, _, _)
SyncLoop(tree, p, o, walk, i, st) ==
    IF st.err # None THEN [tag |-> "Err", err |-> st.err[1]]
    ELSE IF i > Len(walk) THEN [tag |-> "Ok", paths |-> st.results]
    ELSE Bind(LAMBDA next : SyncLoop(tree, p, o, walk, next.i, next.st),
              [i |-> i + 1, st |-> SyncTurn(tree, p, o, walk[i], st)])

\* glob_sync(patterns, opts, opts.predicates).
glob_sync(tree, p, o) ==
    Bind(LAMBDA walk : SyncLoop(tree, p, o, walk, 1,
                                [results |-> <<>>, visited |-> {}, cache |-> <<>>,
                                 err |-> None]),
         WalkDirFrom(tree, o.follow_symlinks, o.max_depth, RootOf(o), 0, {}))

----------------------------------------------------------------------------
\* The inputs of a traversal.

BaseTree == {"root", "a", "b", "d", "c", "e", "f"}

Trees == { BaseTree, BaseTree \cup {"lf"}, BaseTree \cup {"ld"}, BaseTree \cup {"up"},
           BaseTree \cup {"ro", "nu"}, NodeIds }

PatternSets == { [set |-> {<<"*", "*", "/", "*", ".", "t", "x", "t">>}, regexes |-> <<>>],
                 [set |-> {}, regexes |-> << <<"\\", ".", "m", "d", "$">> >>],
                 [set |-> {<<"*", "*">>}, regexes |-> <<>>] }

NoPredicates ==
    [min_size |-> None, max_size |-> None, file_type |-> None, mtime_after |-> None,
     mtime_before |-> None, ctime_after |-> None, ctime_before |-> None]

PredicateSets ==
    { None, Some([NoPredicates EXCEPT !.min_size = Some(2), !.max_size = Some(2)]) }

OptionSets ==
    [ follow_symlinks : BOOLEAN,
      max_depth : {None} \cup {Some(k) : k \in 0..MaxDepth},
      max_inflight : 0..MaxInflight,
      predicates : PredicateSets,
      root_dir : {None, Some(<<"root", "d">>)} ]

ConfigInit ==
    /\ fsTree \in Trees
    /\ opts \in OptionSets
    /\ patterns \in PatternSets

----------------------------------------------------------------------------
\* The streaming walker (async_glob.rs).

WalkFrame == UNCHANGED <<cacheVars, statVars, configVars, facadeVars, braceVars, compileVars,
    microVars, predVars, raceVars>>

NoFrame == [dir |-> <<>>, depth |-> 0]

WalkStart(faults) ==
    /\ syncResult = NoResult
    /\ stack = << [dir |-> RootOf(opts), depth |-> 0] >>
    /\ visited_links = {}
    /\ rd = <<>>
    /\ frame = NoFrame
    /\ entry = <<>>
    /\ dpc = "start"
    /\ permits = opts.max_inflight
    /\ workers = {}
    /\ emitted = <<>>
    /\ stream_cache = <<>>
    /\ ioFaults = faults
    /\ dropped = None
    /\ pushes = << RootOf(opts) >>

WalkInit == WalkStart(MaxFaults)

\* No traversal runs.
WalkIdle ==
    /\ syncResult = NoResult
    /\ stack = <<>>
    /\ visited_links = {}
    /\ rd = <<>>
    /\ frame = NoFrame
    /\ entry = <<>>
    /\ dpc = "off"
    /\ permits = 0
    /\ workers = {}
    /\ emitted = <<>>
    /\ stream_cache = <<>>
    /\ ioFaults = 0
    /\ dropped = None
    /\ pushes = <<>>

\* The body of the stream runs only while the stream is polled: once the
\* stream is dropped none of its statements runs any more.
PolledAlways == TRUE

Polled == dropped = None

\* A mutant of StreamContinues: a failure ends the stream.
StreamStops(at) == "done"

\* Where the driver goes on after a failure: `continue` of the outer loop
\* after a failed read_dir, `break` of the inner loop after a failed
\* next_entry, `continue` of the inner loop after a failed file_type or
\* acquisition.
StreamContinues(at) == IF at \in {"read_dir", "next_entry"} THEN "pop" ELSE "next"

\* glob_sync runs to its end; the stream is polled afterwards.
RunSync ==
    /\ dpc = "start"
    /\ syncResult' = glob_sync(fsTree, patterns, opts)
    /\ dpc' = "pop"
    /\ UNCHANGED <<stack, visited_links, rd, frame, entry, permits, workers, emitted,
                   stream_cache,
                   ioFaults, dropped, pushes>>
    /\ WalkFrame

\* while let Some((dir, depth)) = stack.pop(): the stack is empty.
StreamEnd ==
    /\ Polled
    /\ dpc = "pop"
    /\ stack = <<>>
    /\ dpc' = "done"
    /\ UNCHANGED <<syncResult, stack, visited_links, rd, frame, entry, permits,
                   workers, emitted, stream_cache,
                   ioFaults, dropped, pushes>>
    /\ WalkFrame

\* A frame is popped and fs::read_dir(&dir) opens its directory.
ReadDir ==
    /\ Polled
    /\ dpc = "pop"
    /\ stack # <<>>
    /\ LET top == stack[Len(stack)] IN
         /\ frame' = top
         /\ rd' = Entries(fsTree, FollowLink(Lstat(fsTree, top.dir)))
    /\ stack' = SubSeq(stack, 1, Len(stack) - 1)
    /\ dpc' = "next"
    /\ UNCHANGED <<syncResult, visited_links, entry, permits, workers, emitted,
                   stream_cache,
                   ioFaults, dropped, pushes>>
    /\ WalkFrame

\* fs::read_dir(&dir) fails: the error is yielded and the next frame popped.
ReadDirError ==
    /\ Polled
    /\ dpc = "pop"
    /\ stack # <<>>
    /\ ioFaults > 0
    /\ ioFaults' = ioFaults - 1
    /\ frame' = stack[Len(stack)]
    /\ stack' = SubSeq(stack, 1, Len(stack) - 1)
    /\ emitted' = Append(emitted, [tag |-> "Err", err |-> "Io"])
    /\ dpc' = StreamContinues("read_dir")
    /\ UNCHANGED <<syncResult, visited_links, rd, entry, permits, workers, stream_cache,
                   dropped, pushes>>
    /\ WalkFrame

\* rd.next_entry() fails: the error is yielded and the directory is left.
NextEntryError ==
    /\ Polled
    /\ dpc = "next"
    /\ ioFaults > 0
    /\ ioFaults' = ioFaults - 1
    /\ rd' = <<>>
    /\ emitted' = Append(emitted, [tag |-> "Err", err |-> "Io"])
    /\ dpc' = StreamContinues("next_entry")
    /\ UNCHANGED <<syncResult, stack, visited_links, frame, entry, permits, workers,
                   stream_cache, dropped, pushes>>
    /\ WalkFrame

\* rd.next_entry(): at the end of the directory the next frame is popped;
\* otherwise the entry goes through the containment and cycle checks.
NextEntry ==
    /\ Polled
    /\ dpc = "next"
    /\ IF rd = <<>>
       THEN /\ dpc' = "pop"
            /\ UNCHANGED <<rd, entry, visited_links>>
       ELSE LET path == EntryPath(frame.dir, Head(rd)) IN
            /\ rd' = Tail(rd)
            /\ IF ~is_path_allowed(path, opts.root_dir)
               THEN dpc' = "next" /\ UNCHANGED <<entry, visited_links>>
               ELSE IF opts.follow_symlinks /\ path \in visited_links
               THEN dpc' = "next" /\ UNCHANGED <<entry, visited_links>>
               ELSE /\ visited_links' = IF opts.follow_symlinks
                                        THEN visited_links \cup {path}
                                        ELSE visited_links
                    /\ entry' = path
                    /\ dpc' = "file_type"
    /\ UNCHANGED <<syncResult, stack, frame, permits, workers, emitted, stream_cache,
                   ioFaults, dropped, pushes>>
    /\ WalkFrame

\* if let Some(max_depth) = opts.max_depth { if depth >= max_depth { continue; } }
StreamDescends(depth, maxd) == maxd = None \/ ~(depth >= maxd[1])

\* A mutant of file_type: the type of what a symlink points to.
file_type_of_target(tree, path) == Node(FollowLink(Lstat(tree, path))).kind

\* DirEntry::file_type, which does not follow a symlink.
file_type(tree, path) == Node(Lstat(tree, path)).kind

\* entry.file_type(), which does not follow a symlink: a symlink that is not
\* to be followed is skipped, a directory is pushed unless the depth limit
\* is reached, anything else is a file candidate.
FileType ==
    /\ Polled
    /\ dpc = "file_type"
    /\ LET kind == file_type(fsTree, entry) IN
       IF kind = "symlink" /\ ~opts.follow_symlinks
       THEN dpc' = "next" /\ UNCHANGED <<stack, pushes>>
       ELSE IF kind = "dir"
       THEN /\ dpc' = "next"
            /\ IF StreamDescends(frame.depth, opts.max_depth)
               THEN /\ stack' = Append(stack, [dir |-> entry, depth |-> frame.depth + 1])
                    /\ pushes' = Append(pushes, entry)
               ELSE UNCHANGED <<stack, pushes>>
       ELSE dpc' = "acquire" /\ UNCHANGED <<stack, pushes>>
    /\ UNCHANGED <<syncResult, visited_links, rd, frame, entry, permits, workers,
                   emitted, stream_cache,
                   ioFaults, dropped>>
    /\ WalkFrame

\* entry.file_type() fails: the error is yielded and the next entry taken.
FileTypeError ==
    /\ Polled
    /\ dpc = "file_type"
    /\ ioFaults > 0
    /\ ioFaults' = ioFaults - 1
    /\ emitted' = Append(emitted, [tag |-> "Err", err |-> "Io"])
    /\ dpc' = StreamContinues("file_type")
    /\ UNCHANGED <<syncResult, stack, visited_links, rd, frame, entry, permits, workers,
                   stream_cache, dropped, pushes>>
    /\ WalkFrame

\* A mutant of AwaitJoin: the task is left running and the next entry read.
AwaitLater(at) == "next"

\* After spawn_blocking the driver awaits the join handle before anything
\* else.
AwaitJoin(at) == "join"

\* semaphore.acquire_owned() succeeds and the blocking task is spawned with
\* the permit.
AcquireAndSpawn ==
    /\ Polled
    /\ dpc = "acquire"
    /\ permits > 0
    /\ permits' = permits - 1
    /\ workers' = workers \cup {[path |-> entry, state |-> "running", permit |-> TRUE,
                                  result |-> NoResult]}
    /\ dpc' = AwaitJoin("spawn")
    /\ UNCHANGED <<syncResult, stack, visited_links, rd, frame, entry, emitted,
                   stream_cache,
                   ioFaults, dropped, pushes>>
    /\ WalkFrame

\* The acquisition times out: no permit became available.
AcquireTimeout ==
    /\ Polled
    /\ dpc = "acquire"
    /\ permits = 0
    /\ dpc' = StreamContinues("acquire")
    /\ UNCHANGED <<syncResult, stack, visited_links, rd, frame, entry, permits,
                   workers, emitted, stream_cache,
                   ioFaults, dropped, pushes>>
    /\ WalkFrame

\* What the blocking task computes for a path, and the metadata cache it
\* leaves: Ok(None), Ok(Some(path)) or Err(e).
WorkerResult(path) ==
    IF ~IsUtf8(fsTree, path) \/ ~is_match(patterns, path)
    THEN [ret |-> [tag |-> "Ok", file |-> None], cache |-> stream_cache]
    ELSE IF opts.predicates = None
    THEN [ret |-> [tag |-> "Ok", file |-> Some(path)], cache |-> stream_cache]
    ELSE LET st == StatSeq(stream_cache, fsTree, path, 0, opts.follow_symlinks) IN
         IF st.ret.tag = "Err" THEN [ret |-> st.ret, cache |-> st.cache]
         ELSE IF ~matches(opts.predicates[1], st.ret.meta)
         THEN [ret |-> [tag |-> "Ok", file |-> None], cache |-> st.cache]
         ELSE [ret |-> [tag |-> "Ok", file |-> Some(path)], cache |-> st.cache]

\* A mutant of PermitsAfterWorker: the permit is not given back.
PermitLeaked(n) == n

\* The task's closure returns and its permit is dropped.
PermitsAfterWorker(n) == n + 1

\* A blocking task runs to its end.
WorkerRun ==
    /\ \E w \in workers :
         /\ w.state = "running"
         /\ LET r == WorkerResult(w.path) IN
              /\ workers' = (workers \ {w})
                               \cup {[w EXCEPT !.state = "finished", !.permit = FALSE,
                                                !.result = r.ret]}
              /\ stream_cache' = r.cache
    /\ permits' = PermitsAfterWorker(permits)
    /\ UNCHANGED <<syncResult, stack, visited_links, rd, frame, entry, dpc, emitted,
                   ioFaults, dropped, pushes>>
    /\ WalkFrame

\* A mutant of Yielded: a found file is reported relative to the directory
\* the traversal started from.
YieldedRelative(r) ==
    IF r.tag = "Err" THEN << r >>
    ELSE IF r.file = None THEN <<>>
    ELSE << [tag |-> "Ok", path |-> <<"root", r.file[1][Len(r.file[1])]>>] >>

\* The item the driver yields for a task's result, if any.
Yielded(r) ==
    IF r.tag = "Err" THEN << r >>
    ELSE IF r.file = None THEN <<>>
    ELSE << [tag |-> "Ok", path |-> r.file[1]] >>

\* join_handle.await returns and the result is yielded.
Join ==
    /\ Polled
    /\ dpc = "join"
    /\ \E w \in workers :
         /\ w.path = entry
         /\ w.state = "finished"
         /\ workers' = workers \ {w}
         /\ emitted' = emitted \o Yielded(w.result)
    /\ dpc' = "next"
    /\ UNCHANGED <<syncResult, stack, visited_links, rd, frame, entry, permits,
                   stream_cache,
                   ioFaults, dropped, pushes>>
    /\ WalkFrame

\* The consumer drops the stream while its body is suspended: the body is
\* never resumed; a spawned task is detached and not cancelled.
Drop ==
    /\ Polled
    /\ dpc \in {"pop", "next", "file_type", "acquire", "join"}
    /\ dropped' = Some({w.path : w \in {x \in workers : x.state = "running"}})
    /\ UNCHANGED <<syncResult, stack, visited_links, rd, frame, entry, dpc, permits,
                   workers, emitted, stream_cache, ioFaults, pushes>>
    /\ WalkFrame

DropNext ==
    \/ RunSync
    \/ StreamEnd
    \/ ReadDir
    \/ NextEntry
    \/ FileType
    \/ Drop
    \/ AcquireAndSpawn
    \/ AcquireTimeout
    \/ WorkerRun
    \/ Join

\* The steps of a stream that is polled to its end.
StreamNext ==
    \/ RunSync
    \/ StreamEnd
    \/ ReadDir
    \/ NextEntry
    \/ FileType
    \/ AcquireAndSpawn
    \/ AcquireTimeout
    \/ WorkerRun
    \/ Join

WalkNext ==
    \/ RunSync
    \/ StreamEnd
    \/ ReadDir
    \/ ReadDirError
    \/ NextEntry
    \/ NextEntryError
    \/ FileType
    \/ FileTypeError
    \/ Drop
    \/ AcquireAndSpawn
    \/ AcquireTimeout
    \/ WorkerRun
    \/ Join

----------------------------------------------------------------------------
\* The facade (lib.rs).

RootLists == { << <<"root">> >>, << <<"root", "d">> >>,
               << <<"root", "d">>, <<"root", "d", "e">> >> }

FacadeFrame == UNCHANGED <<cacheVars, statVars, configVars, walkVars, braceVars, compileVars,
    microVars, predVars, raceVars>>

FacadeInit ==
    /\ roots \in RootLists
    /\ rootsLeft = roots
    /\ huntResults = [tag |-> "Ok", paths |-> <<>>]
    /\ fpc = "loop"

\* PatternHunt::sync is not called.
FacadeIdle ==
    /\ roots = <<>>
    /\ rootsLeft = <<>>
    /\ huntResults = [tag |-> "Ok", paths |-> <<>>]
    /\ fpc = "off"

\* The traversal PatternHunt::sync runs for root r: r is bound to _root and
\* not used, and glob_sync gets the options as they are.
TraversalFor(r) == glob_sync(fsTree, patterns, opts)

\* One turn of `for r in roots`: the traversal's paths are appended, and an
\* error ends the call.
FacadeRoot ==
    /\ fpc = "loop"
    /\ rootsLeft # <<>>
    /\ LET v == TraversalFor(Head(rootsLeft)) IN
       IF v.tag = "Err"
       THEN huntResults' = v /\ fpc' = "done"
       ELSE /\ huntResults' = [huntResults EXCEPT !.paths = @ \o v.paths]
            /\ fpc' = "loop"
    /\ rootsLeft' = Tail(rootsLeft)
    /\ UNCHANGED roots
    /\ FacadeFrame

\* Ok(huntResults)
FacadeReturn ==
    /\ fpc = "loop"
    /\ rootsLeft = <<>>
    /\ fpc' = "done"
    /\ UNCHANGED <<roots, rootsLeft, huntResults>>
    /\ FacadeFrame

FacadeNext == FacadeRoot \/ FacadeReturn

----------------------------------------------------------------------------
\* Brace expansion (patterns/brace.rs). A string is the sequence of its
\* characters; a Result is Ok(value) or Err(error).

Ok(v) == [tag |-> "Ok", value |-> v]

Err(e) == [tag |-> "Err", error |-> e]

Digits == <<"0", "1", "2", "3", "4", "5", "6", "7", "8", "9">>

\* str::parse::<i64>: an optional sign and then one or more ASCII digits.
\* The strings parsed here hold few digits, so the value always fits.
parse_i64(s) ==
    LET signed == s # <<>> /\ s[1] \in {"+", "-"}
        ds == IF signed THEN Tail(s) ELSE s
        DigitValue(c) == CHOOSE d \in 0..9 : Digits[d + 1] = c
        RECURSIVE val(_)
        val(i) == IF i = 0 THEN 0 ELSE 10 * val(i - 1) + DigitValue(ds[i])
    IN IF ds = <<>> \/ \E i \in 1..Len(ds) : \A d \in 1..10 : Digits[d] # ds[i]
       THEN None
       ELSE Some(IF signed /\ s[1] = "-" THEN 0 - val(Len(ds)) ELSE val(Len(ds)))

\* i64::to_string
to_string(v) ==
    LET RECURSIVE digits(_)
        digits(n) == IF n < 10 THEN <<Digits[n + 1]>>
                     ELSE Append(digits(n \div 10), Digits[(n % 10) + 1])
    IN IF v < 0 THEN <<"-">> \o digits(0 - v) ELSE digits(v)

\* parse_range: s.split("..") must give two parts that both parse.
parse_range(s) ==
    LET RECURSIVE split(_)
        split(st) ==
            IF st.i > Len(s) THEN Append(st.parts, st.buf)
            ELSE Bind(split,
                      IF st.i < Len(s) /\ s[st.i] = "." /\ s[st.i + 1] = "."
                      THEN [i |-> st.i + 2, buf |-> <<>>, parts |-> Append(st.parts, st.buf)]
                      ELSE [i |-> st.i + 1, buf |-> Append(st.buf, s[st.i]), parts |-> st.parts])
    IN Bind(LAMBDA parts :
              IF Len(parts) # 2 THEN None
              ELSE Bind(LAMBDA ab : IF ab[1] = None \/ ab[2] = None THEN None
                                    ELSE Some(<<ab[1][1], ab[2][1]>>),
                        <<parse_i64(parts[1]), parse_i64(parts[2])>>),
            split([i |-> 1, buf |-> <<>>, parts |-> <<>>]))

\* find_brace: the first complete top-level pair of braces, as Some(<<st, en>>).
find_brace(s) ==
    LET RECURSIVE scan(_)
        scan(st) ==
            IF st.i > Len(s) THEN None
            ELSE IF s[st.i] = "{"
            THEN Bind(scan, [i |-> st.i + 1, depth |-> st.depth + 1,
                             start |-> IF st.depth = 0 THEN st.i ELSE st.start])
            ELSE IF s[st.i] = "}"
            THEN IF st.depth = 0 THEN None
                 ELSE IF st.depth = 1 THEN Some(<<st.start, st.i>>)
                 ELSE Bind(scan, [st EXCEPT !.i = @ + 1, !.depth = @ - 1])
            ELSE Bind(scan, [st EXCEPT !.i = @ + 1])
    IN scan([i |-> 1, depth |-> 0, start |-> 0])

\* The alternatives of a group: its inner text split at the commas outside
\* nested braces; what follows the last comma is kept only if it is not empty.
split_items(inner) ==
    LET RECURSIVE scan(_)
        scan(st) ==
            IF st.i > Len(inner)
            THEN IF st.buf # <<>> THEN Append(st.items, st.buf) ELSE st.items
            ELSE IF inner[st.i] = "," /\ st.inner_depth = 0
            THEN Bind(scan, [st EXCEPT !.i = @ + 1, !.buf = <<>>,
                                       !.items = Append(@, st.buf)])
            ELSE Bind(scan, [st EXCEPT !.i = @ + 1, !.buf = Append(@, inner[st.i]),
                                       !.inner_depth =
                                           IF inner[st.i] = "{" THEN @ + 1
                                           ELSE IF inner[st.i] = "}"
                                           THEN (IF @ = 0 THEN 0 ELSE @ - 1)
                                           ELSE @])
    IN scan([i |-> 1, buf |-> <<>>, inner_depth |-> 0, items |-> <<>>])

\* expanded_items: a numeric range stands for its values from a up to b.
expanded_items(items) ==
    LET RECURSIVE from(_)
        from(i) ==
            IF i > Len(items) THEN <<>>
            ELSE Bind(LAMBDA r :
                        IF r = None THEN <<items[i]>>
                        ELSE [k \in 1..(r[1][2] - r[1][1] + 1) |-> to_string(r[1][1] + k - 1)],
                      parse_range(items[i])) \o from(i + 1)
    IN from(1)

\* A mutant of TooMany: the limit itself is refused.
TooManyAtLimit(len) == len >= MAX_EXPANSIONS

\* out.len() > MAX_EXPANSIONS
TooMany(len) == len > MAX_EXPANSIONS

\* A mutant of Pushes: the suffix loop is the outer one.
PushesSuffixMajor(before, mids, sufs) ==
    [k \in 1..(Len(mids) * Len(sufs)) |->
        before \o mids[((k - 1) % Len(mids)) + 1] \o sufs[((k - 1) \div Len(mids)) + 1]]

\* The strings one alternative pushes: for mid in mids { for suf in sufs {
\* format!("{}{}{}", before, mid, suf) } }.
Pushes(before, mids, sufs) ==
    [k \in 1..(Len(mids) * Len(sufs)) |->
        before \o mids[((k - 1) \div Len(sufs)) + 1] \o sufs[((k - 1) % Len(sufs)) + 1]]

\* A mutant of SuffixDepth: the suffix is expanded at the depth of its group.
SuffixDepthOfGroup(depth) == depth

\* The depth the text after a group is expanded with: expand_inner(after,
\* depth + 1).
SuffixDepth(depth) == depth + 1

RECURSIVE expand_inner(_, _)
RECURSIVE expand_loop(_, _, _, _, _)

\* `for it in expanded_items` over items lo..hi, when out holds n strings:
\* the strings pushed, or the first error met. The items are taken half by
\* half, in order; an alternative's expansion is evaluated before the
\* suffix's, which is evaluated only if the alternative expanded to something.
expand_loop(p, depth, lo, hi, n) ==
    IF lo > hi THEN Ok(<<>>)
    ELSE IF lo = hi
    THEN Bind(LAMBDA mids :
                IF mids.tag = "Err" \/ mids.value = <<>> THEN mids
                ELSE Bind(LAMBDA sufs :
                            IF sufs.tag = "Err" THEN sufs
                            ELSE IF sufs.value # <<>>
                                    /\ TooMany(n + Len(mids.value) * Len(sufs.value))
                            THEN Err("BraceExpansionCount")
                            ELSE Ok(Pushes(p.before, mids.value, sufs.value)),
                          expand_inner(p.after, SuffixDepth(depth))),
              expand_inner(p.items[lo], depth + 1))
    ELSE Bind(LAMBDA left :
                IF left.tag = "Err" THEN left
                ELSE Bind(LAMBDA right :
                            IF right.tag = "Err" THEN right
                            ELSE Ok(left.value \o right.value),
                          expand_loop(p, depth, ((lo + hi) \div 2) + 1, hi,
                                      n + Len(left.value))),
              expand_loop(p, depth, lo, (lo + hi) \div 2, n))

expand_inner(input, depth) ==
    IF depth > MAX_DEPTH THEN Err("BraceExpansionDepth")
    ELSE Bind(LAMBDA found :
                IF found = None THEN Ok(<<input>>)
                ELSE IF depth + 1 > MAX_DEPTH THEN Err("BraceExpansionDepth")
                ELSE Bind(LAMBDA p : expand_loop(p, depth, 1, Len(p.items), 0),
                          [before |-> SubSeq(input, 1, found[1][1] - 1),
                           items |-> expanded_items(split_items(
                                        SubSeq(input, found[1][1] + 1, found[1][2] - 1))),
                           after |-> SubSeq(input, found[1][2] + 1, Len(input))]),
              find_brace(input))

\* brace::expand
expand(input) == Bind(LAMBDA s : expand_inner(s, 0), input)

\* The inputs brace::expand is called with: every string of at most MaxLen
\* characters over BraceAlphabet, groups nested and repeated up to MaxNest
\* times, ranges with small ends and with MAX_EXPANSIONS values or one more
\* or less, and the inputs of the tests of brace.rs.
BraceAlphabet == {"{", "}", ",", "a", "b"}

Nested(n, body) == [i \in 1..n |-> "{"] \o body \o [i \in 1..n |-> "}"]

Successive(n) == [i \in 1..(3 * n) |-> <<"{", "a", "}">>[((i - 1) % 3) + 1]]

RangeOf(a, b) == <<"{">> \o to_string(a) \o <<".", ".">> \o to_string(b) \o <<"}">>

BraceInputs ==
    UNION {[1..n -> BraceAlphabet] : n \in 0..MaxLen}
    \cup {Nested(n, body) : n \in 0..MaxNest,
          body \in {<<"a">>, <<"a", ",", "b">>,
                    Tail(RangeOf(1, MAX_EXPANSIONS)), Tail(RangeOf(1, MAX_EXPANSIONS + 1))}}
    \cup {Successive(n) : n \in 0..MaxNest}
    \cup {<<"{", "}">> \o Nested(n, <<"a">>) : n \in 0..MaxNest}
    \cup {<<"{", "a", "}">> \o Nested(n, <<"a">>) : n \in 0..MaxNest}
    \cup {RangeOf(a, b) : a, b \in (0 - 1)..MaxRange}
    \cup {<<"x">> \o RangeOf(0, b) \o <<"{", "a", ",", "b", "}">> : b \in 0..MaxRange}
    \cup {RangeOf(1, MAX_EXPANSIONS - 1),
          RangeOf(1, 10) \o RangeOf(1, 10) \o RangeOf(1, 10),
          RangeOf(1, 10) \o RangeOf(1, 10) \o RangeOf(1, 11),
          <<"{">> \o RangeOf(1, MAX_EXPANSIONS + 1) \o <<"}", "{", "}">>,
          <<"f", "i", "l", "e", ".", "{", "t", "x", "t", ",", "m", "d", "}">>,
          <<"t", "e", "s", "t", "{", "1", ".", ".", "3", "}">>,
          <<"a", "{", "b", ",", "c", "}", "d">>,
          <<"{", "a", ",", "b", "{", "1", ",", "2", "}", "}">>,
          <<"{", "a", ",", "b", "}", "{", "c", ",", "d", "}", "e">>,
          <<"{", "x", "{", "a", ",", "b", "}", ",", "y", "}", "{", "c", ",", "d", "}">>,
          <<"{", "0", "1", ".", ".", "0", "3", ",", "x", "}">>,
          <<"{", "a", ",", ",", "b", "}">>,
          <<"x", "{", "a", ",", "}", "y">>,
          <<"{", "1", ".", ".", ".", "3", "}">>}

BraceFrame == UNCHANGED <<cacheVars, statVars, configVars, walkVars, facadeVars, compileVars,
    microVars, predVars, raceVars>>

BraceInit ==
    /\ braceInput \in BraceInputs
    /\ braceResult = NoResult

\* brace::expand is not called.
BraceIdle ==
    /\ braceInput = <<>>
    /\ braceResult = NoResult

\* A call of brace::expand(braceInput).
BraceExpand ==
    /\ braceResult = NoResult
    /\ braceResult' = expand(braceInput)
    /\ UNCHANGED braceInput
    /\ BraceFrame

BraceNext == BraceExpand

----------------------------------------------------------------------------
\* Translation of extended patterns to regex sources (patterns/micromatch.rs).
\* A token is a character, escaped or not: an unescaped character is the
\* Token variant of its own (OpenParen for "(", Star for "*", ...) or Char.

Tok(c) == [escaped |-> FALSE, c |-> c]

\* str::split(c)
split_char(s, c) ==
    LET RECURSIVE scan(_)
        scan(st) ==
            IF st.i > Len(s) THEN Append(st.parts, st.buf)
            ELSE Bind(scan,
                      IF s[st.i] = c
                      THEN [i |-> st.i + 1, buf |-> <<>>, parts |-> Append(st.parts, st.buf)]
                      ELSE [i |-> st.i + 1, buf |-> Append(st.buf, s[st.i]), parts |-> st.parts])
    IN scan([i |-> 1, buf |-> <<>>, parts |-> <<>>])

tokenize(s) ==
    LET RECURSIVE scan(_)
        scan(st) ==
            IF st.i > Len(s) THEN st.out
            ELSE IF s[st.i] = "\\" /\ st.i < Len(s)
            THEN Bind(scan, [i |-> st.i + 2,
                             out |-> Append(st.out, [escaped |-> TRUE, c |-> s[st.i + 1]])])
            ELSE Bind(scan, [i |-> st.i + 1, out |-> Append(st.out, Tok(s[st.i]))])
    IN scan([i |-> 1, out |-> <<>>])

RECURSIVE tokens_to_string(_)
tokens_to_string(tokens) ==
    IF tokens = <<>> THEN <<>>
    ELSE (IF Head(tokens).escaped THEN <<"\\", Head(tokens).c>> ELSE <<Head(tokens).c>>)
         \o tokens_to_string(Tail(tokens))

regex_escape_char(c) ==
    IF c \in {".", "+", "?", "*", "(", ")", "[", "]", "{", "}", "^", "$", "|", "\\"}
    THEN <<"\\", c>>
    ELSE <<c>>

\* collect_until_balanced on the tokens from position `from`: the tokens up
\* to the closer of the group that is open, and the position after it.
collect_until_balanced(tokens, from, start, end) ==
    LET RECURSIVE scan(_)
        scan(st) ==
            IF st.i > Len(tokens) THEN Err("InvalidPattern")
            ELSE IF tokens[st.i] = end /\ st.depth = 1
            THEN Ok([inner |-> st.out, next |-> st.i + 1])
            ELSE Bind(scan, [i |-> st.i + 1,
                             depth |-> IF tokens[st.i] = start THEN st.depth + 1
                                       ELSE IF tokens[st.i] = end THEN st.depth - 1
                                       ELSE st.depth,
                             out |-> Append(st.out, tokens[st.i])])
    IN scan([i |-> from, depth |-> 1, out |-> <<>>])

process_character_class(tokens) ==
    LET negated == tokens # <<>> /\ Head(tokens) = Tok("!")
    IN (IF negated THEN <<"[", "^">> ELSE <<"[">>)
       \o tokens_to_string(IF negated THEN Tail(tokens) ELSE tokens) \o <<"]">>

RECURSIVE micromatch_to_regex(_)

\* A mutant of Wildcard: the token is kept as a literal character.
WildcardLiteral(c) == <<"\\", c>>

\* What the arms Token::Question, Token::Star and Token::Plus push on the
\* output: ".", ".*" and ".+".
Wildcard(c) == IF c = "?" THEN <<".">> ELSE <<".", c>>

\* str::trim_start_matches and str::trim_end_matches with a character.
RECURSIVE trim_start_matches(_, _)
trim_start_matches(s, c) ==
    IF s # <<>> /\ Head(s) = c THEN trim_start_matches(Tail(s), c) ELSE s

RECURSIVE trim_end_matches(_, _)
trim_end_matches(s, c) ==
    IF s # <<>> /\ s[Len(s)] = c THEN trim_end_matches(SubSeq(s, 1, Len(s) - 1), c) ELSE s

\* What process_extglob puts in the group for an alternative translated to
\* regex_alt.
extglob_alternative(regex_alt) ==
    trim_end_matches(trim_start_matches(regex_alt, "^"), "$")

\* A mutant of brace_alternative: the alternative of a brace group is
\* trimmed as the alternative of an extglob group is.
brace_alternative_trimmed(regex_alt) == extglob_alternative(regex_alt)

\* What the brace arm puts in the group for an alternative translated to
\* regex_alt: the translation as it is.
brace_alternative(regex_alt) == regex_alt

\* The translations of the alternatives joined with "|": extglob
\* alternatives lose every leading "^" and every trailing "$", brace
\* alternatives keep theirs.
translate_joined(alternatives, trimmed) ==
    LET RECURSIVE from(_)
        from(i) ==
            IF i > Len(alternatives) THEN Ok(<<>>)
            ELSE Bind(LAMBDA r :
                        IF r.tag = "Err" THEN r
                        ELSE Bind(LAMBDA rest :
                                    IF rest.tag = "Err" THEN rest
                                    ELSE Ok((IF i > 1 THEN <<"|">> ELSE <<>>)
                                            \o (IF trimmed THEN extglob_alternative(r.value)
                                                ELSE brace_alternative(r.value))
                                            \o rest.value),
                                  from(i + 1)),
                      micromatch_to_regex(alternatives[i]))
    IN from(1)

process_extglob(tokens, operator) ==
    LET RECURSIVE split(_)
        split(st) ==
            IF st.i > Len(tokens)
            THEN IF st.current # <<>> THEN Append(st.alternatives, st.current)
                 ELSE st.alternatives
            ELSE Bind(split,
                      LET depth == IF tokens[st.i] = Tok("(") THEN st.depth + 1
                                   ELSE IF tokens[st.i] = Tok(")") THEN st.depth - 1
                                   ELSE st.depth
                      IN IF tokens[st.i] = Tok("|") /\ depth = 0
                         THEN [i |-> st.i + 1, depth |-> depth, current |-> <<>>,
                               alternatives |-> Append(st.alternatives, st.current)]
                         ELSE [i |-> st.i + 1, depth |-> depth,
                               current |-> Append(st.current, tokens[st.i]),
                               alternatives |-> st.alternatives])
    IN Bind(LAMBDA r :
              IF r.tag = "Err" THEN r
              ELSE IF operator = Tok("?") THEN Ok(<<"(", "?", ":">> \o r.value \o <<")", "?">>)
              ELSE IF operator = Tok("*") THEN Ok(<<"(", "?", ":">> \o r.value \o <<")", "*">>)
              ELSE IF operator = Tok("+") THEN Ok(<<"(", "?", ":">> \o r.value \o <<")", "+">>)
              ELSE IF operator = Tok("@") THEN Ok(<<"(", "?", ":">> \o r.value \o <<")">>)
              ELSE IF operator = Tok("!")
              THEN Ok(<<"(", "?", "!", "(", "?", ":">> \o r.value \o <<")", ")", ".", "*">>)
              ELSE Err("InvalidPattern"),
            Bind(LAMBDA alts :
                   translate_joined([k \in 1..Len(alts) |-> tokens_to_string(alts[k])], TRUE),
                 split([i |-> 1, depth |-> 0, current |-> <<>>, alternatives |-> <<>>])))

micromatch_to_regex(pat) ==
    IF Len(pat) >= 3 /\ SubSeq(pat, 1, 3) = <<"r", "e", ":">>
    THEN Ok(SubSeq(pat, 4, Len(pat)))
    ELSE
    Bind(LAMBDA ts :
      LET Peek(i) == IF i + 1 <= Len(ts) THEN ts[i + 1] ELSE Tok("")
          \* the group whose opener is at position open: its translation and
          \* the position after its closer
          Group(open, operator, start, end) ==
              Bind(LAMBDA inner :
                     IF inner.tag = "Err" THEN inner
                     ELSE Bind(LAMBDA processed :
                                 IF processed.tag = "Err" THEN processed
                                 ELSE Ok([text |-> processed.value, next |-> inner.value.next]),
                               IF start = Tok("[")
                               THEN Ok(process_character_class(inner.value.inner))
                               ELSE IF start = Tok("{")
                               THEN Bind(LAMBDA r :
                                           IF r.tag = "Err" THEN r
                                           ELSE Ok(<<"(", "?", ":">> \o r.value \o <<")">>),
                                         translate_joined(
                                            split_char(tokens_to_string(inner.value.inner), ","),
                                            FALSE))
                               ELSE process_extglob(inner.value.inner, operator)),
                   collect_until_balanced(ts, open + 1, start, end))
          \* one turn of `while let Some(token) = tokens_iter.next()`
          Turn(i) ==
              LET token == ts[i] IN
              IF token \in {Tok("?"), Tok("*"), Tok("+")}
              THEN Ok([text |-> Wildcard(token.c), next |-> i + 1])
              ELSE IF token \in {Tok("@"), Tok("!")} /\ Peek(i) = Tok("(")
              THEN Group(i + 1, token, Tok("("), Tok(")"))
              ELSE IF token = Tok("(")
                      /\ Peek(i) \in {Tok("?"), Tok("*"), Tok("+"), Tok("@"), Tok("!")}
              THEN IF Peek(i + 1) # Tok("(") THEN Err("InvalidPattern")
                   ELSE Group(i + 2, Peek(i), Tok("("), Tok(")"))
              ELSE IF token = Tok("[") THEN Group(i, token, Tok("["), Tok("]"))
              ELSE IF token = Tok("{") THEN Group(i, token, Tok("{"), Tok("}"))
              ELSE IF token.escaped
              THEN Ok([text |-> regex_escape_char(token.c), next |-> i + 1])
              ELSE IF token \in {Tok("("), Tok(")"), Tok("|"), Tok("]"), Tok("}"), Tok("@"),
                                 Tok("!"), Tok(","), Tok("-")}
              THEN Ok([text |-> <<token.c>>, next |-> i + 1])
              ELSE Ok([text |-> regex_escape_char(token.c), next |-> i + 1])
          RECURSIVE loop(_)
          loop(st) ==
              IF st.i > Len(ts) THEN Ok(<<"^">> \o st.output \o <<"$">>)
              ELSE Bind(LAMBDA t :
                          IF t.tag = "Err" THEN t
                          ELSE Bind(loop, [i |-> t.value.next,
                                           output |-> st.output \o t.value.text]),
                        Turn(st.i))
      IN loop([i |-> 1, output |-> <<>>]),
      tokenize(pat))

\* The patterns micromatch_to_regex is called with: every string of at most
\* MaxPatLen characters over MicroAlphabet, an operator before or inside a
\* group of one or two alternatives, stray delimiters around a literal, and
\* the patterns of the tests of micromatch.rs.
MicroAlphabet == {"(", ")", "|", "[", "]", "{", "}", "?", "@", "!", ",", "\\", "a", "$"}

Operators == {"?", "*", "+", "@", "!"}

MicroAlternatives == {<<"a">>, <<"a", "|", "b">>, <<"a", "b", "|", "c">>, <<"a", "$", "|", "^", "b">>}

MicroInputs ==
    UNION {[1..n -> MicroAlphabet] : n \in 0..MaxPatLen}
    \cup {<<op, "(">> \o alts \o <<")">> : op \in Operators, alts \in MicroAlternatives}
    \cup {<<"(", op, "(">> \o alts \o <<")">> : op \in Operators, alts \in MicroAlternatives}
    \cup {<<"x">> \o <<op, "(">> \o alts \o <<")", ".", "y">> :
              op \in Operators, alts \in MicroAlternatives}
    \cup {<<"*", ".", "t", "x", "t">>,
          <<"f", "i", "l", "e", "?", ".", "t", "x", "t">>,
          <<"f", "i", "l", "e", "[", "0", "-", "9", "]", ".", "t", "x", "t">>,
          <<"f", "i", "l", "e", ".", "{", "t", "x", "t", ",", "m", "d", "}">>,
          <<"r", "e", ":", "(", "a">>,
          <<"[", "!", "a", "-", "c", "]", "*">>,
          <<"a", "^", "b", "+">>,
          <<"{", "a", ",", "b", "}">>,
          <<"{", "a", ",", "?", "b", "}">>,
          <<"x", "{", "a", "$", ",", "b", "}">>}

MicroFrame ==
    UNCHANGED <<cacheVars, statVars, configVars, walkVars, facadeVars, braceVars, compileVars,
                predVars, raceVars>>

MicroInit ==
    /\ mmInput \in MicroInputs
    /\ mmResult = NoResult

\* micromatch_to_regex is not called.
MicroIdle ==
    /\ mmInput = <<>>
    /\ mmResult = NoResult

\* A call of micromatch_to_regex(mmInput).
MicromatchToRegex ==
    /\ mmResult = NoResult
    /\ mmResult' = Bind(micromatch_to_regex, mmInput)
    /\ UNCHANGED mmInput
    /\ MicroFrame

MicroNext == MicromatchToRegex

----------------------------------------------------------------------------
\* Compilation of pattern lists (patterns/mod.rs).

\* str::trim
trim(s) ==
    LET White == {" ", "\t", "\n", "\r"}
        kept == {i \in 1..Len(s) : s[i] \notin White}
    IN IF kept = {} THEN <<>>
       ELSE SubSeq(s, CHOOSE i \in kept : \A j \in kept : i <= j,
                      CHOOSE i \in kept : \A j \in kept : j <= i)

\* str::contains
contains(s, sub) == \E i \in 1..(Len(s) - Len(sub) + 1) : SubSeq(s, i, i + Len(sub) - 1) = sub

\* A mutant of is_traversal: only "/../" is looked for.
is_traversal_between_slashes(pattern_str) == contains(pattern_str, <<"/", ".", ".", "/">>)

\* The path traversal test of compile_many.
is_traversal(pattern_str) ==
    contains(pattern_str, <<"*", "*", "/", ".", ".">>) \/ contains(pattern_str, <<"/", ".", ".", "/">>)

is_complex_pattern(pattern) ==
    \E i \in 1..Len(pattern) :
        pattern[i] \in {"@", "!", "+", "?", "(", ")", "[", "]", "{", "}", "|"}

\* regex::Regex::new, for the sources the modelled patterns give: a source is
\* refused if its parentheses do not pair up or if it has a look-around
\* group, which the regex crate does not support.
regex_new(src) ==
    LET plain == {i \in 1..Len(src) : i = 1 \/ src[i - 1] # "\\"}
        level(i) == Cardinality({j \in plain : j <= i /\ src[j] = "("})
                    - Cardinality({j \in plain : j <= i /\ src[j] = ")"})
    IN IF \/ level(Len(src)) # 0
          \/ \E i \in 1..Len(src) : level(i) < 0
          \/ contains(src, <<"(", "?", "!">>) \/ contains(src, <<"(", "?", "=">>)
       THEN Err("Regex")
       ELSE Ok(src)

\* get_or_compile_regex run by one caller on the regex cache c = [cache,
\* metrics, lookups]: what it returns and the cache it leaves.
get_or_compile_regex(pat, c) ==
    IF Len(pat) > 1000 \/ Cardinality({i \in 1..Len(pat) : pat[i] = "("}) > MAX_REGEX_COMPLEXITY
    THEN [result |-> Err("RegexTooComplex"), c |-> c]
    ELSE Bind(LAMBDA got :
                IF got.ret = "Some"
                THEN [result |-> Ok(pat),
                      c |-> [cache |-> got.cache, metrics |-> got.metrics,
                             lookups |-> c.lookups + 1]]
                ELSE IF regex_new(pat).tag = "Err"
                THEN [result |-> regex_new(pat),
                      c |-> [cache |-> got.cache, metrics |-> got.metrics,
                             lookups |-> c.lookups + 1]]
                ELSE Bind(LAMBDA put :
                            [result |-> Ok(pat),
                             c |-> [cache |-> put.cache, metrics |-> put.metrics,
                                    lookups |-> c.lookups + 1]],
                          CachePut(got.cache, got.metrics, pat, now, DEFAULT_TTL)),
              CacheGet(c.cache, c.metrics, pat, now))

\* Patterns::process_pattern on acc = [globs, regexes, c, error]: the builder,
\* the regex list and the regex cache it leaves, and the error it returns
\* if it fails. globset::Glob::new refuses a pattern that ends in a
\* backslash.
process_pattern(pattern, acc) ==
    LET RECURSIVE each(_, _, _)
        each(expanded_patterns, i, a) ==
            IF i > Len(expanded_patterns) THEN a
            ELSE LET expanded == expanded_patterns[i]
                     is_re == Len(expanded) >= 3 /\ SubSeq(expanded, 1, 3) = <<"r", "e", ":">>
                 IN IF is_re \/ is_complex_pattern(expanded)
                    THEN Bind(LAMBDA src :
                           IF src.tag = "Err" THEN [a EXCEPT !.error = Some(src.error)]
                           ELSE Bind(LAMBDA re :
                                  IF re.result.tag = "Err"
                                  THEN [a EXCEPT !.c = re.c, !.error = Some(re.result.error)]
                                  ELSE Bind(LAMBDA n : each(expanded_patterns, i + 1, n),
                                            [a EXCEPT !.regexes = Append(@, re.result.value),
                                                      !.c = re.c]),
                                  get_or_compile_regex(src.value, a.c)),
                           IF is_re THEN Ok(SubSeq(expanded, 4, Len(expanded)))
                           ELSE micromatch_to_regex(expanded))
                    ELSE IF expanded # <<>> /\ expanded[Len(expanded)] = "\\"
                    THEN [a EXCEPT !.error = Some("InvalidPattern")]
                    ELSE Bind(LAMBDA n : each(expanded_patterns, i + 1, n),
                              [a EXCEPT !.globs = Append(@, expanded)])
    IN Bind(LAMBDA expanded_patterns :
              IF expanded_patterns.tag = "Err"
              THEN [acc EXCEPT !.error = Some(expanded_patterns.error)]
              ELSE each(expanded_patterns.value, 1, acc),
            IF contains(pattern, <<"{">>) /\ contains(pattern, <<"}">>)
            THEN expand(pattern)
            ELSE Ok(<<pattern>>))

\* The pattern lists compile_many is called with: at most MaxPatterns
\* patterns, each one of PatternTexts.
PatternTexts ==
    { <<>>, <<" ", "\t">>,
      <<"*", "*", "/", "*", ".", "t", "x", "t">>,
      <<" ", "*", "*", " ">>,
      <<"*", ".", "{", "t", "x", "t", ",", "m", "d", "}">>,
      <<"r", "e", ":", "\\", ".", "m", "d", "$">>,
      <<"r", "e", ":", "a", "{", "2", ",", "3", "}">>,
      <<"r", "e", ":", "(", "a">>,
      <<"r", "e", ":", "/", ".", ".", "/">>,
      <<"*", "*", "/", ".", ".">>,
      <<" ", "a", "/", ".", ".", "/", "b">>,
      <<"a", "/", "{", ".", ".", "}", "/", "b">>,
      <<"?", ".", "t", "x", "t">>,
      <<"@", "(", "a", "|", "b", ")">>,
      <<"!", "(", "a", ")">>,
      <<"[", "a">> }

PatternLists == UNION {[1..n -> PatternTexts] : n \in 0..MaxPatterns}

\* The paths is_match is asked about.
MatchPaths == { <<"root", "a.txt">>, <<"root", "b.md">>, <<"root", "d">>,
                <<"root", "d", "c.txt">> }

CompileFrame ==
    UNCHANGED <<cacheMutex, metricsMutex, cpc, cop, cret, now, ticks, opsLeft, statVars,
                configVars, walkVars, facadeVars, braceVars, microVars, predVars, raceVars>>

CompileInit ==
    /\ cmInput \in PatternLists
    /\ cmLeft = cmInput
    /\ cmGlobs = <<>>
    /\ cmRegexes = <<>>
    /\ cmResult = NoResult
    /\ cmMatch = NoResult

\* compile_many is not called.
CompileIdle ==
    /\ cmInput = <<>>
    /\ cmLeft = <<>>
    /\ cmGlobs = <<>>
    /\ cmRegexes = <<>>
    /\ cmResult = NoResult
    /\ cmMatch = NoResult

\* One turn of `for pattern in patterns` in compile_many: a blank pattern is
\* skipped, a traversal pattern ends the call, any other pattern is processed.
CompileTurn ==
    /\ cmResult = NoResult
    /\ cmLeft # <<>>
    /\ LET pattern_str == trim(Head(cmLeft))
           done == process_pattern(pattern_str,
                      [globs |-> cmGlobs, regexes |-> cmRegexes, error |-> None,
                       c |-> [cache |-> lru["regex"], metrics |-> metrics["regex"],
                              lookups |-> lookups["regex"]]])
       IN IF pattern_str = <<>>
          THEN UNCHANGED <<cmGlobs, cmRegexes, cmResult, lru, metrics, lookups>>
          ELSE IF is_traversal(pattern_str)
          THEN /\ cmResult' = Err("PathTraversal")
               /\ UNCHANGED <<cmGlobs, cmRegexes, lru, metrics, lookups>>
          ELSE /\ lru' = [lru EXCEPT !["regex"] = done.c.cache]
               /\ metrics' = [metrics EXCEPT !["regex"] = done.c.metrics]
               /\ lookups' = [lookups EXCEPT !["regex"] = done.c.lookups]
               /\ IF done.error # None
                  THEN cmResult' = Err(done.error[1]) /\ UNCHANGED <<cmGlobs, cmRegexes>>
                  ELSE /\ cmGlobs' = done.globs
                       /\ cmRegexes' = done.regexes
                       /\ UNCHANGED cmResult
    /\ cmLeft' = Tail(cmLeft)
    /\ UNCHANGED <<cmInput, cmMatch>>
    /\ CompileFrame

\* builder.build() and Ok(Self { set, regexes }).
CompileBuild ==
    /\ cmResult = NoResult
    /\ cmLeft = <<>>
    /\ cmResult' = Ok([set |-> {cmGlobs[i] : i \in 1..Len(cmGlobs)}, regexes |-> cmRegexes])
    /\ UNCHANGED <<cmInput, cmLeft, cmGlobs, cmRegexes, cmMatch, lru, metrics, lookups>>
    /\ CompileFrame

\* A call of is_match on the compiled Patterns.
IsMatch ==
    /\ cmResult.tag = "Ok"
    /\ cmMatch = NoResult
    /\ \E path \in MatchPaths :
          cmMatch' = [path |-> path, result |-> is_match(cmResult.value, path)]
    /\ UNCHANGED <<cmInput, cmLeft, cmGlobs, cmRegexes, cmResult, lru, metrics, lookups>>
    /\ CompileFrame

CompileNext == CompileTurn \/ CompileBuild \/ IsMatch

----------------------------------------------------------------------------
\* Threads that call get_or_compile_regex, next to calls of set_ttl and
\* clear_caches (patterns/cache.rs). get, put and clear run with both
\* mutexes of their cache held from their first statement to their last, so
\* each is one step.

\* The two threads that call get_or_compile_regex.
Racers == {1, 2}

\* The durations set_ttl is called with.
TtlArgs == {DEFAULT_TTL - 1}

\* No insertion of any key was made.
NoPuts == [k \in OpKeys |-> None]

RaceFrame ==
    UNCHANGED <<cacheMutex, metricsMutex, cpc, cop, cret, opsLeft, statVars, configVars,
                walkVars, facadeVars, braceVars, compileVars, microVars, predVars>>

\* Every thread is about to call get_or_compile_regex, on empty or on full
\* caches.
RaceInit ==
    /\ \E n \in {0} \cup InitFills : CacheStart(n, {}, 0)
    /\ gpc = [t \in Racers |-> "get"]
    /\ gkey \in [Racers -> OpKeys]
    /\ gret = [t \in Racers |-> "None"]
    /\ ttl_args = <<>>
    /\ clears = 0
    /\ puts = NoPuts

\* No thread calls get_or_compile_regex.
RaceIdle ==
    /\ gpc = [t \in Racers |-> "off"]
    /\ gkey = [t \in Racers |-> 0]
    /\ gret = [t \in Racers |-> "None"]
    /\ ttl_args = <<>>
    /\ clears = 0
    /\ puts = NoPuts

\* if let Some(cached) = REGEX_CACHE.get(pat) { return Ok(cached); }
RaceGet(t) ==
    /\ gpc[t] = "get"
    /\ LET r == CacheGet(lru["regex"], metrics["regex"], gkey[t], now) IN
         /\ lru' = [lru EXCEPT !["regex"] = r.cache]
         /\ metrics' = [metrics EXCEPT !["regex"] = r.metrics]
         /\ gpc' = [gpc EXCEPT ![t] = IF r.ret = "Some" THEN "done" ELSE "compile"]
         /\ gret' = [gret EXCEPT ![t] = IF r.ret = "Some" THEN "Ok" ELSE @]
    /\ lookups' = [lookups EXCEPT !["regex"] = @ + 1]
    /\ UNCHANGED <<now, ticks, gkey, ttl_args, clears, puts>>
    /\ RaceFrame

\* let re = Regex::new(pat)?
RaceCompile(t) ==
    /\ gpc[t] = "compile"
    /\ gpc' = [gpc EXCEPT ![t] = "put"]
    /\ UNCHANGED <<lru, metrics, lookups, now, ticks, gkey, gret, ttl_args, clears, puts>>
    /\ RaceFrame

\* REGEX_CACHE.put(pat.to_string(), re.clone()); Ok(re)
RacePut(t) ==
    /\ gpc[t] = "put"
    /\ LET r == CachePut(lru["regex"], metrics["regex"], gkey[t], now, DEFAULT_TTL) IN
         /\ lru' = [lru EXCEPT !["regex"] = r.cache]
         /\ metrics' = [metrics EXCEPT !["regex"] = r.metrics]
    /\ puts' = [puts EXCEPT ![gkey[t]] = Some([at |-> now, requested |-> ttl_args])]
    /\ gpc' = [gpc EXCEPT ![t] = "done"]
    /\ gret' = [gret EXCEPT ![t] = "Ok"]
    /\ UNCHANGED <<lookups, now, ticks, gkey, ttl_args, clears>>
    /\ RaceFrame

\* set_ttl(_ttl): its body is empty.
SetTtl ==
    /\ Len(ttl_args) < MaxSetTtl
    /\ \E d \in TtlArgs : ttl_args' = Append(ttl_args, d)
    /\ UNCHANGED <<lru, metrics, lookups, now, ticks, gpc, gkey, gret, clears, puts>>
    /\ RaceFrame

\* clear_caches(): GLOB_CACHE.clear(); REGEX_CACHE.clear(). No thread of
\* this specification uses the glob cache, so both are cleared in one step.
RaceClear ==
    /\ clears < MaxClears
    /\ clears' = clears + 1
    /\ lru' = [c \in Caches |-> CacheClear(lru[c], metrics[c]).cache]
    /\ metrics' = [c \in Caches |-> CacheClear(lru[c], metrics[c]).metrics]
    /\ UNCHANGED <<lookups, now, ticks, gpc, gkey, gret, ttl_args, puts>>
    /\ RaceFrame

\* Time passes between two steps.
RaceTick ==
    /\ ticks < MaxTicks
    /\ \E d \in TickSteps : now' = now + d
    /\ ticks' = ticks + 1
    /\ UNCHANGED <<lru, metrics, lookups, gpc, gkey, gret, ttl_args, clears, puts>>
    /\ RaceFrame

RaceNext ==
    \/ \E t \in Racers : RaceGet(t)
    \/ \E t \in Racers : RaceCompile(t)
    \/ \E t \in Racers : RacePut(t)
    \/ SetTtl
    \/ RaceClear
    \/ RaceTick

----------------------------------------------------------------------------
\* Calls of Predicates::matches (predicates.rs).

\* The sizes and the instants the predicates and the metadata are drawn
\* from.
Sizes == 0..MaxSize

Instants == 1..3

PredicatesInputs ==
    [ min_size : {None} \cup {Some(k) : k \in Sizes},
      max_size : {None} \cup {Some(k) : k \in Sizes},
      file_type : {None, Some("File"), Some("Dir"), Some("Symlink")},
      mtime_after : {None, Some(2)},
      mtime_before : {None, Some(2)},
      ctime_after : {None, Some(2)},
      ctime_before : {None, Some(2)} ]

MetadataInputs ==
    [ len : Sizes, kind : {"file", "dir", "symlink"}, readonly : {FALSE},
      mtime : Instants, ctime : Instants ]

PredFrame ==
    UNCHANGED <<cacheVars, statVars, configVars, walkVars, facadeVars, braceVars, compileVars,
                microVars, raceVars>>

PredInit ==
    /\ prInput \in PredicatesInputs
    /\ prMeta \in MetadataInputs
    /\ prResult = NoResult

\* matches is not called.
PredIdle ==
    /\ prInput = NoPredicates
    /\ prMeta = [len |-> 0, kind |-> "file", readonly |-> FALSE, mtime |-> 1, ctime |-> 1]
    /\ prResult = NoResult

\* A call of prInput.matches(&prMeta).
PredicatesMatches ==
    /\ prResult = NoResult
    /\ prResult' = Ok(matches(prInput, prMeta))
    /\ UNCHANGED <<prInput, prMeta>>
    /\ PredFrame

PredNext == PredicatesMatches

----------------------------------------------------------------------------
\* Specifications: each runs one part of the program and leaves the others
\* unused.

\* No thread uses the compilation caches.
CacheIdle == CacheStart(0, {}, 0)

\* The traversal inputs of a specification that runs no traversal.
ConfigIdle ==
    /\ fsTree = BaseTree
    /\ opts = [follow_symlinks |-> FALSE, max_depth |-> None, max_inflight |-> 0,
               predicates |-> None, root_dir |-> None]
    /\ patterns = [set |-> {}, regexes |-> <<>>]

OthersIdle ==
    ConfigIdle /\ WalkIdle /\ FacadeIdle /\ BraceIdle /\ CompileIdle /\ MicroIdle /\ PredIdle
    /\ RaceIdle

InitCache == CacheInit /\ StatIdle /\ OthersIdle

SpecCache == InitCache /\ [][CacheNext]_vars

InitCacheFull == CacheFullInit /\ StatIdle /\ OthersIdle

SpecCacheFull == InitCacheFull /\ [][CacheNext]_vars

InitStat == StatInit /\ CacheIdle /\ OthersIdle

SpecStat == InitStat /\ [][StatNext]_vars

InitWalk ==
    /\ ConfigInit /\ WalkInit /\ CacheIdle /\ StatIdle /\ FacadeIdle /\ BraceIdle
    /\ CompileIdle /\ MicroIdle /\ PredIdle
    /\ RaceIdle

SpecWalk == InitWalk /\ [][WalkNext]_vars

\* A stream the consumer polls until it ends, when no filesystem call fails:
\* every filesystem call, every acquisition and every task returns, so a
\* step that can be taken is taken.
InitStream ==
    /\ ConfigInit /\ WalkStart(0) /\ CacheIdle /\ StatIdle /\ FacadeIdle /\ BraceIdle
    /\ CompileIdle /\ MicroIdle /\ PredIdle
    /\ RaceIdle

SpecStream == InitStream /\ [][StreamNext]_vars /\ WF_vars(StreamNext)

\* The traversals when no filesystem call of the stream fails. A task given
\* to spawn_blocking runs to its end on the blocking pool, whether or not
\* its join handle is still awaited.
InitDrop ==
    /\ ConfigInit /\ WalkStart(0) /\ CacheIdle /\ StatIdle /\ FacadeIdle /\ BraceIdle
    /\ CompileIdle /\ MicroIdle /\ PredIdle
    /\ RaceIdle

SpecDrop == InitDrop /\ [][DropNext]_vars /\ WF_vars(WorkerRun)

InitFacade ==
    /\ ConfigInit /\ FacadeInit /\ CacheIdle /\ StatIdle /\ WalkIdle /\ BraceIdle
    /\ CompileIdle /\ MicroIdle /\ PredIdle
    /\ RaceIdle

SpecFacade == InitFacade /\ [][FacadeNext]_vars

InitBrace ==
    /\ BraceInit /\ CacheIdle /\ StatIdle /\ ConfigIdle /\ WalkIdle /\ FacadeIdle
    /\ CompileIdle /\ MicroIdle /\ PredIdle
    /\ RaceIdle

SpecBrace == InitBrace /\ [][BraceNext]_vars

InitCompile ==
    /\ CompileInit /\ CacheIdle /\ StatIdle /\ ConfigIdle /\ WalkIdle /\ FacadeIdle
    /\ BraceIdle /\ MicroIdle /\ PredIdle
    /\ RaceIdle

SpecCompile == InitCompile /\ [][CompileNext]_vars

InitMicro ==
    /\ MicroInit /\ CacheIdle /\ StatIdle /\ ConfigIdle /\ WalkIdle /\ FacadeIdle
    /\ BraceIdle /\ CompileIdle /\ PredIdle
    /\ RaceIdle

SpecMicro == InitMicro /\ [][MicroNext]_vars

InitPredicates ==
    /\ PredInit /\ CacheIdle /\ StatIdle /\ ConfigIdle /\ WalkIdle /\ FacadeIdle
    /\ BraceIdle /\ CompileIdle /\ MicroIdle /\ RaceIdle

SpecPredicates == InitPredicates /\ [][PredNext]_vars

InitRace ==
    /\ RaceInit /\ StatIdle /\ ConfigIdle /\ WalkIdle /\ FacadeIdle /\ BraceIdle
    /\ CompileIdle /\ MicroIdle /\ PredIdle

SpecRace == InitRace /\ [][RaceNext]_vars

----------------------------------------------------------------------------
\* Properties of the compilation caches.

Running(t) == cpc[t] \in {"acquire", "body", "release"}

\* The get calls on cache c whose body has not run yet.
PendingGets(c) ==
    Cardinality({t \in Threads : /\ cpc[t] \in {"acquire", "body"}
                                 /\ cop[t].op = "get"
                                 /\ cop[t].cache = c})

\* C8: no deadlock is reachable under concurrent get, put, clear and metrics
\* calls: whenever some operation is in progress some thread can take a step;
\* no thread waits for the cache mutex while holding the metrics mutex; an
\* operation's body runs with every mutex it locks held, so bodies on one
\* cache exclude each other; and whoever can lock the metrics sees a size
\* that is the number of stored entries.
C8_NoDeadlockLockOrder ==
    /\ (\E t \in Threads : Running(t)) => (\E t \in Threads : ENABLED ThreadStep(t))
    /\ \A t \in Threads :
         (cpc[t] = "acquire" /\ metricsMutex[cop[t].cache] = t)
            => cacheMutex[cop[t].cache] = t
    /\ \A t \in Threads :
         cpc[t] = "body" =>
            /\ metricsMutex[cop[t].cache] = t
            /\ cop[t].op # "metrics" => cacheMutex[cop[t].cache] = t
    /\ \A t1, t2 \in Threads :
         (t1 # t2 /\ cpc[t1] = "body" /\ cpc[t2] = "body")
            => cop[t1].cache # cop[t2].cache
    /\ \A c \in Caches :
         metricsMutex[c] = NoOwner => metrics[c].size = Len(lru[c])

\* C8 witness: a clear holds both mutexes of a cache while a get of another
\* thread waits for the cache mutex of the same cache.
C8_Witness ==
    \E t1, t2 \in Threads :
        /\ t1 # t2
        /\ cpc[t1] = "body" /\ cop[t1].op = "clear"
        /\ cpc[t2] = "acquire" /\ cop[t2].op = "get"
        /\ cop[t2].cache = cop[t1].cache
        /\ cacheMutex[cop[t1].cache] = t1

\* C9: hits + misses of a cache equals the number of get calls made on it
\* whose body has run; put, clear and metrics do not change the sum.
C9_HitsPlusMisses ==
    \A c \in Caches :
        metrics[c].hits + metrics[c].misses + PendingGets(c) = lookups[c]

\* C9 witness: lookups have been counted on one cache, one of them a hit, and
\* no lookup is pending.
C9_Witness ==
    \E c \in Caches :
        /\ metrics[c].hits = 1
        /\ lookups[c] >= 1
        /\ PendingGets(c) = 0

\* No key an operation uses is stored twice (the keys of the initial fill are
\* distinct, and only the keys of OpKeys are ever inserted).
StoredOnce(q) ==
    \A k \in OpKeys : Cardinality({i \in 1..Len(q) : q[i].key = k}) <= 1

\* The step is the body of a put of a key that a full cache c does not hold.
PutNewOnFull(c) ==
    \E t \in Threads :
        /\ cpc[t] = "body" /\ cpc'[t] = "release"
        /\ cop[t].op = "put" /\ cop[t].cache = c
        /\ Len(lru[c]) = MAX_CACHE_SIZE
        /\ ~LruContains(lru[c], cop[t].key)

\* C10: metrics.size, as stored and as returned by metrics(), is the number
\* of entries stored, which never exceeds 1000; a put of a new key into a
\* full cache removes exactly the least recently used entry.
C10_SizeAndLru ==
    /\ [](\A c \in Caches :
            /\ metrics[c].size = Len(lru[c])
            /\ StoredOnce(lru[c])
            /\ Len(lru[c]) <= MAX_CACHE_SIZE)
    /\ [](\A t \in Threads :
            (cpc[t] = "release" /\ cop[t].op = "metrics")
               => cret[t].size = Len(lru[cop[t].cache]))
    /\ [][\A c \in Caches :
            PutNewOnFull(c) =>
               /\ Len(lru'[c]) = MAX_CACHE_SIZE
               /\ SeqKeys(lru[c]) \ SeqKeys(lru'[c])
                     = {lru[c][MAX_CACHE_SIZE].key}
               /\ Tail(lru'[c]) = SubSeq(lru[c], 1, MAX_CACHE_SIZE - 1)]_vars

\* C10 witness: a full cache has taken a new key and no longer holds key 1,
\* which was its least recently used entry.
C10_Witness ==
    \E c \in Caches :
        /\ Len(lru[c]) = MAX_CACHE_SIZE
        /\ metrics[c].size = MAX_CACHE_SIZE
        /\ Head(lru[c]).key = MAX_CACHE_SIZE + 1
        /\ ~LruContains(lru[c], 1)

\* The step is the body of operation op of thread t.
BodyStep(t, op) == cpc[t] = "body" /\ cpc'[t] = "release" /\ cop[t].op = op

\* Cache c holds key k with an expiry instant that is not later than t.
HoldsExpired(c, k, t) ==
    LruContains(lru[c], k) /\ ~(lru[c][LruIndex(lru[c], k)].expires_at > t)

\* C11: a lookup returns a value only if the entry's expiry instant is
\* strictly later than the current time, and then counts a hit; a lookup that
\* finds an expired entry removes it, adds one to evictions, updates size,
\* adds one to misses and none to hits, and returns nothing.
C11_ExpiredLookup ==
    [][\A t \in Threads :
         BodyStep(t, "get") =>
            LET c == cop[t].cache
                k == cop[t].key
            IN /\ cret'[t] = "Some" =>
                     /\ LruContains(lru[c], k)
                     /\ lru[c][LruIndex(lru[c], k)].expires_at > now
                     /\ metrics'[c].hits = metrics[c].hits + 1
               /\ HoldsExpired(c, k, now) =>
                     /\ cret'[t] = "None"
                     /\ lru'[c] = LruRemove(lru[c], k)
                     /\ metrics'[c].evictions = metrics[c].evictions + 1
                     /\ metrics'[c].size = Len(lru'[c])
                     /\ metrics'[c].misses = metrics[c].misses + 1
                     /\ metrics'[c].hits = metrics[c].hits]_vars

\* C11 witness: a lookup made at the very instant its entry expires has
\* removed the only entry of its cache and returned nothing.
C11_Witness ==
    \E t \in Threads :
        /\ cpc[t] = "release" /\ cop[t].op = "get" /\ cret[t] = "None"
        /\ now = DEFAULT_TTL
        /\ lru[cop[t].cache] = <<>>
        /\ metrics[cop[t].cache] = [hits |-> 0, misses |-> 1, evictions |-> 1, size |-> 0]
        /\ opsLeft = 0

\* C12: the body of a clear empties its cache, sets size to 0 and adds
\* exactly one to evictions, however many entries it drops; as long as no
\* put runs on the cache it stays empty; a lookup on a cache that does not
\* hold the key is a miss; and when clear_caches() is about to return to a
\* caller that is alone, both caches are empty with size 0.
C12_ClearThenMiss ==
    /\ [][\A t \in Threads :
            BodyStep(t, "clear") =>
               LET c == cop[t].cache
               IN /\ lru'[c] = <<>>
                  /\ metrics'[c] = [metrics[c] EXCEPT !.size = 0, !.evictions = @ + 1]]_vars
    /\ [][\A c \in Caches :
            (lru[c] = <<>> /\ ~\E t \in Threads : BodyStep(t, "put") /\ cop[t].cache = c)
               => lru'[c] = <<>>]_vars
    /\ [][\A t \in Threads :
            (BodyStep(t, "get") /\ ~LruContains(lru[cop[t].cache], cop[t].key))
               => /\ cret'[t] = "None"
                  /\ metrics'[cop[t].cache].misses = metrics[cop[t].cache].misses + 1
                  /\ metrics'[cop[t].cache].hits = metrics[cop[t].cache].hits]_vars
    /\ [](\A t \in Threads :
            (cpc[t] = "release" /\ cop[t].op = "clear" /\ cop[t].then = <<>>)
               => \A c \in Caches : lru[c] = <<>> /\ metrics[c].size = 0
                                      /\ metrics[c].evictions >= 1)

\* C12 witness: clear_caches() dropped the entries of two full caches and
\* the lookup that followed it missed.
C12_Witness ==
    /\ \E t \in Threads : cpc[t] = "release" /\ cop[t].op = "get" /\ cret[t] = "None"
    /\ \A c \in Caches : lru[c] = <<>> /\ metrics[c].size = 0
                          /\ metrics[c].evictions = 1 /\ metrics[c].hits = 0
    /\ \E c \in Caches : metrics[c].misses = MAX_CACHE_SIZE + 1

\* C13: no step makes hits, misses or evictions of a cache smaller; clear
\* does not reset them.
C13_CountersMonotonic ==
    [][\A c \in Caches :
         /\ metrics'[c].hits >= metrics[c].hits
         /\ metrics'[c].misses >= metrics[c].misses
         /\ metrics'[c].evictions >= metrics[c].evictions]_vars

\* C13 witness: a clear took size from 1000 down to 0 and the misses counted
\* before it are still there.
C13_Witness ==
    \E c \in Caches :
        /\ metrics[c].size = 0
        /\ metrics[c].misses = MAX_CACHE_SIZE
        /\ metrics[c].evictions = 1

----------------------------------------------------------------------------
\* Properties of the stat service.

\* A filesystem call of thread t is in progress.
InFsCall(t) == spc[t] \in {"is_symlink", "metadata"}

\* C6: BatchIO::stat does not hold the metadata-cache mutex while its
\* symlink check or its metadata query is in progress.
C6_NoLockAcrossIo ==
    \A t \in Threads : InFsCall(t) => statMutex # t

\* The step is the cache check of thread t's stat.
CacheCheckStep(t) == spc[t] = "cached" /\ spc'[t] # "cached"

\* The metadata cache holds an entry for path that expires after instant t.
HoldsLive(path, t) ==
    /\ LruContains(metadata_cache, path)
    /\ metadata_cache[LruIndex(metadata_cache, path)].expires_at > t

\* C14: stat returns a cached snapshot only before its expiry instant, and
\* then without a filesystem query; an entry found at or after its expiry
\* instant is removed and the call goes on to query the filesystem; an entry
\* expires 30 s after its insertion.
C14_StatExpiry ==
    /\ [][\A t \in Threads :
            CacheCheckStep(t) =>
               /\ HoldsLive(spath[t], snow) =>
                     /\ spc'[t] = "idle"
                     /\ sret'[t] =
                           [tag |-> "Ok",
                            meta |-> metadata_cache[LruIndex(metadata_cache, spath[t])].metadata]
                     /\ fsQueries'[t] = 0
               /\ ~HoldsLive(spath[t], snow) =>
                     /\ ~LruContains(metadata_cache', spath[t])
                     /\ spc'[t] \in {"is_symlink", "metadata"}
                     /\ sret'[t] = NoResult]_vars
    /\ [][\A t \in Threads :
            (spc[t] = "finish" /\ spc'[t] = "idle" /\ sret'[t].tag = "Ok")
               => /\ fsQueries[t] >= 1
                  /\ Head(metadata_cache') =
                        [key |-> spath[t], metadata |-> sret'[t].meta,
                         expires_at |-> snow + METADATA_CACHE_TTL]]_vars

\* C14 witness: a stat found the entry that another stat of the same path
\* had inserted 30 s earlier, removed it and is querying the filesystem.
C14_Witness ==
    \E t1, t2 \in Threads :
        /\ t1 # t2
        /\ spc[t1] = "metadata" /\ spath[t1] = <<"root", "a.txt">>
        /\ spc[t2] = "idle" /\ spath[t2] = spath[t1] /\ sret[t2].tag = "Ok"
        /\ snow = METADATA_CACHE_TTL
        /\ metadata_cache = <<>>
        /\ statsLeft = MaxStats - 2

----------------------------------------------------------------------------
\* Traversal properties.

Range(q) == {q[i] : i \in 1..Len(q)}

\* The paths the stream has yielded as Ok items.
OkPaths == {it.path : it \in {x \in Range(emitted) : x.tag = "Ok"}}

\* Both traversals ran to their end, glob_sync without an error, and the
\* stream with permits to give and with no filesystem call that failed.
BothDone ==
    dpc = "done" /\ syncResult.tag = "Ok" /\ opts.max_inflight >= 1 /\ ioFaults = MaxFaults

\* C1: on the same inputs the stream yields, as Ok items, the set of paths
\* glob_sync returns, whatever max_depth and follow_symlinks are.
C1_SyncStreamSameSet == BothDone => OkPaths = Range(syncResult.paths)

\* The files among the entries of the root directory that the patterns and
\* the predicates accept.
DirectChildrenFiles ==
    { path \in { EntryPath(RootOf(opts), n) :
                    n \in Range(Entries(fsTree, Lstat(fsTree, RootOf(opts)))) } :
        /\ Metadata(fsTree, path).meta.kind = "file"
        /\ IsUtf8(fsTree, path)
        /\ is_match(patterns, path)
        /\ opts.predicates # None =>
              matches(opts.predicates[1], Metadata(fsTree, path).meta) }

\* C3: with max_depth = 0 either traversal emits exactly the matching files
\* that are direct children of the root directory.
C3_DepthZeroDirectChildren ==
    (BothDone /\ opts.max_depth = Some(0)) =>
        /\ Range(syncResult.paths) = DirectChildrenFiles
        /\ OkPaths = DirectChildrenFiles

\* C4: no path that either traversal emits is a directory, a symlink to a
\* directory included.
C4_NoDirectoryEmitted ==
    /\ \A path \in OkPaths : ~IsDir(fsTree, path)
    /\ syncResult # NoResult /\ syncResult.tag = "Ok" =>
          \A path \in Range(syncResult.paths) : ~IsDir(fsTree, path)

\* C5: when root_dir is set, every path glob_sync returns and every Ok item
\* of the stream has root_dir as a prefix.
C5_WithinRootDir ==
    opts.root_dir # None =>
        /\ \A path \in OkPaths : IsPrefix(opts.root_dir[1], path)
        /\ syncResult # NoResult /\ syncResult.tag = "Ok" =>
              \A path \in Range(syncResult.paths) : IsPrefix(opts.root_dir[1], path)

\* Both traversals ended under a root_dir and both found a file.
C5_Witness ==
    /\ opts.root_dir # None
    /\ dpc = "done"
    /\ OkPaths # {}
    /\ syncResult.tag = "Ok" /\ syncResult.paths # <<>>

\* The worker tasks that hold a permit.
PermitHolders == {w \in workers : w.permit}

\* C7: the workers holding a permit are at most max_inflight, a worker runs
\* only while it holds one, every permit not available is held by a worker,
\* and when the stream has ended all max_inflight permits are available.
C7_PermitsBounded ==
    /\ Cardinality(PermitHolders) <= opts.max_inflight
    /\ \A w \in workers : w.state = "running" => w.permit
    /\ permits + Cardinality(PermitHolders) = opts.max_inflight
    /\ dpc = "done" => permits = opts.max_inflight /\ workers = {}

\* The stream ended after workers finished with a match, without one and
\* with an error.
C7_Witness ==
    /\ dpc = "done"
    /\ opts.max_inflight >= 1
    /\ \E x \in Range(emitted) : x.tag = "Ok"
    /\ \E x \in Range(emitted) : x.tag = "Err"
    /\ opts.predicates # None /\ <<"root", "b.md">> \notin OkPaths
    /\ permits = opts.max_inflight

\* The paths found under root r.
FoundUnder(r) == glob_sync(fsTree, patterns, [opts EXCEPT !.root_dir = Some(r)])

\* The concatenation of what is found under each root of a list.
RECURSIVE FoundUnderEach(_)
FoundUnderEach(rs) ==
    IF rs = <<>> THEN <<>>
    ELSE FoundUnder(Head(rs)).paths \o FoundUnderEach(Tail(rs))

\* C2: PatternHunt::sync returns, root after root, the paths found under
\* that root.
C2_PerRootResults ==
    (/\ fpc = "done"
     /\ huntResults.tag = "Ok"
     /\ \A i \in 1..Len(roots) : FoundUnder(roots[i]).tag = "Ok")
        => huntResults.paths = FoundUnderEach(roots)

----------------------------------------------------------------------------
\* Properties of brace expansion.

\* The number of braces open after the first i characters of s.
BraceLevel(s, i) ==
    Cardinality({j \in 1..i : s[j] = "{"}) - Cardinality({j \in 1..i : s[j] = "}"})

\* Every closing brace closes an open one and none stays open.
Balanced(s) ==
    /\ BraceLevel(s, Len(s)) = 0
    /\ \A i \in 1..Len(s) : BraceLevel(s, i) >= 0

\* How deep the groups of s nest.
NestingDepth(s) ==
    CHOOSE d \in 0..Len(s) :
        /\ \E i \in 0..Len(s) : BraceLevel(s, i) = d
        /\ \A i \in 0..Len(s) : BraceLevel(s, i) <= d

\* The alternatives of a group, empty ones included: the pieces of its inner
\* text between the commas that lie outside nested braces.
Alternatives(inner) ==
    LET commas == {i \in 1..Len(inner) : inner[i] = "," /\ BraceLevel(inner, i) = 0}
        cut(k) == IF k = 0 THEN 0
                  ELSE IF k = Cardinality(commas) + 1 THEN Len(inner) + 1
                  ELSE CHOOSE c \in commas : Cardinality({x \in commas : x < c}) = k - 1
    IN [k \in 1..(Cardinality(commas) + 1) |-> SubSeq(inner, cut(k - 1) + 1, cut(k) - 1)]

\* The number of strings the expansion of s holds when nothing limits it.
RECURSIVE FullCount(_)
FullCount(s) ==
    Bind(LAMBDA found :
           IF found = None THEN 1
           ELSE Bind(LAMBDA items :
                       LET RECURSIVE sum(_)
                           sum(i) ==
                               IF i > Len(items) THEN 0
                               ELSE Bind(LAMBDA r :
                                           IF r = None THEN FullCount(items[i])
                                           ELSE IF r[1][2] < r[1][1] THEN 0
                                           ELSE r[1][2] - r[1][1] + 1,
                                         parse_range(items[i])) + sum(i + 1)
                       IN Bind(LAMBDA n : IF n = 0 THEN 0
                                          ELSE n * FullCount(SubSeq(s, found[1][2] + 1, Len(s))),
                               sum(1)),
                     split_items(SubSeq(s, found[1][1] + 1, found[1][2] - 1))),
         find_brace(s))

BraceDone == braceResult # NoResult

C19_DepthLimit ==
    BraceDone /\ Balanced(braceInput) =>
      /\ NestingDepth(braceInput) > MAX_DEPTH => braceResult = Err("BraceExpansionDepth")
      /\ NestingDepth(braceInput) <= MAX_DEPTH => braceResult # Err("BraceExpansionDepth")

\* C20: for prefix{alt1,...,altn}suffix whose last alternative is not empty
\* and whose ranges do not descend, the result lists, for each alternative from left to
\* right (the values of a range in ascending order), each expansion of the
\* alternative with each expansion of the suffix, the suffix varying fastest,
\* as prefix + alternative expansion + suffix expansion.
C20_CrossProductOrder ==
    (BraceDone /\ braceResult.tag = "Ok" /\ find_brace(braceInput) # None) =>
      Bind(LAMBDA g :
             ((/\ g.alts[Len(g.alts)] # <<>>
               /\ \A k \in 1..Len(g.alts) :
                     parse_range(g.alts[k]) # None =>
                        parse_range(g.alts[k])[1][1] <= parse_range(g.alts[k])[1][2])
              => Bind(LAMBDA e :
                        /\ Len(braceResult.value) = e.offset[Len(g.alts) + 1]
                        /\ \A k \in 1..Len(g.alts) : \A m \in 1..Len(e.exps[k]) :
                             \A j \in 1..Len(e.sufs) :
                               braceResult.value[e.offset[k] + (m - 1) * Len(e.sufs) + j]
                                   = g.before \o e.exps[k][m] \o e.sufs[j],
                      Bind(LAMBDA x :
                             [exps |-> x.exps, sufs |-> x.sufs,
                              offset |-> LET RECURSIVE off(_)
                                             off(k) == IF k = 1 THEN 0
                                                       ELSE off(k - 1)
                                                            + Len(x.exps[k - 1]) * Len(x.sufs)
                                         IN [k \in 1..(Len(g.alts) + 1) |-> off(k)]],
                           [exps |-> [k \in 1..Len(g.alts) |->
                                        Bind(LAMBDA r :
                                               IF r = None THEN expand(g.alts[k]).value
                                               ELSE [v \in 1..(r[1][2] - r[1][1] + 1) |->
                                                        to_string(r[1][1] + v - 1)],
                                             parse_range(g.alts[k]))],
                            sufs |-> Bind(LAMBDA a : IF a.tag = "Ok" THEN a.value ELSE <<>>,
                                          expand(g.after))]))),
           Bind(LAMBDA found :
                  [before |-> SubSeq(braceInput, 1, found[1][1] - 1),
                   alts |-> Alternatives(SubSeq(braceInput, found[1][1] + 1, found[1][2] - 1)),
                   after |-> SubSeq(braceInput, found[1][2] + 1, Len(braceInput))],
                find_brace(braceInput)))
    /\ (BraceDone /\ braceInput = <<"a", "{", "b", ",", "c", "}", "d">>
          => braceResult = Ok(<< <<"a", "b", "d">>, <<"a", "c", "d">> >>))
    /\ (BraceDone /\ braceInput = <<"t", "e", "s", "t", "{", "1", ".", ".", "3", "}">>
          => braceResult = Ok(<< <<"t", "e", "s", "t", "1">>, <<"t", "e", "s", "t", "2">>,
                                 <<"t", "e", "s", "t", "3">> >>))

\* An alternative with two expansions and a suffix with two: the suffix
\* varies fastest, then the expansion, then the alternative.
C20_Witness ==
    /\ braceInput = <<"{", "x", "{", "a", ",", "b", "}", ",", "y", "}", "{", "c", ",", "d", "}">>
    /\ braceResult = Ok(<< <<"x", "a", "c">>, <<"x", "a", "d">>, <<"x", "b", "c">>,
                           <<"x", "b", "d">>, <<"y", "c">>, <<"y", "d">> >>)

\* The input is one group with no group inside it and no range: text, `{`,
\* alternatives separated by commas, `}`, text.
FlatGroup(s) ==
    /\ Cardinality({i \in 1..Len(s) : s[i] = "{"}) = 1
    /\ Cardinality({i \in 1..Len(s) : s[i] = "}"}) = 1
    /\ Balanced(s)
    /\ \A i \in 1..Len(s) : s[i] # "."

\* C21: the expansion of a flat group has one string for every alternative of
\* the group, in order, an empty alternative giving the text around the group
\* with nothing in between, whether it is the first, a middle or the last
\* alternative or the only one ({}).
C21_EmptyAlternatives ==
    (BraceDone /\ FlatGroup(braceInput)) =>
      LET open == CHOOSE i \in 1..Len(braceInput) : braceInput[i] = "{"
          close == CHOOSE i \in 1..Len(braceInput) : braceInput[i] = "}"
          alts == Alternatives(SubSeq(braceInput, open + 1, close - 1))
      IN braceResult = Ok([k \in 1..Len(alts) |->
                             SubSeq(braceInput, 1, open - 1) \o alts[k]
                               \o SubSeq(braceInput, close + 1, Len(braceInput))])

\* C22: an input with an unmatched brace is returned unchanged, as the only
\* string of the result.
C22_UnbalancedSingleton ==
    (BraceDone /\ ~Balanced(braceInput)) => braceResult = Ok(<<braceInput>>)

----------------------------------------------------------------------------
\* Properties of pattern compilation.

\* The pattern is `re:` followed by a source the regex engine accepts, with
\* no blank around it and no traversal text in it.
IsRePattern(pattern) ==
    /\ Len(pattern) > 3
    /\ SubSeq(pattern, 1, 3) = <<"r", "e", ":">>
    /\ trim(pattern) = pattern
    /\ regex_new(SubSeq(pattern, 4, Len(pattern))).tag = "Ok"
    /\ ~contains(pattern, <<"/", ".", ".", "/">>)
    /\ ~contains(pattern, <<"*", "*", "/", ".", ".">>)

\* C15: a list of patterns `re:`+rx compiles to exactly the regexes rx, one
\* for each pattern and character for character, and to no glob, also when
\* rx contains braces.
C15_RePrefixVerbatim ==
    (/\ cmResult # NoResult
     /\ cmInput # <<>>
     /\ \A i \in 1..Len(cmInput) : IsRePattern(cmInput[i]))
    => cmResult = Ok([set |-> {},
                      regexes |-> [i \in 1..Len(cmInput) |->
                                     SubSeq(cmInput[i], 4, Len(cmInput[i]))]])

\* The trimmed pattern is not empty and contains `**/..` or `/../`.
HasTraversal(pattern) ==
    /\ trim(pattern) # <<>>
    /\ \/ contains(trim(pattern), <<"*", "*", "/", ".", ".">>)
       \/ contains(trim(pattern), <<"/", ".", ".", "/">>)

\* C16 as stated: compile_many fails with PathTraversal for every list that
\* holds a traversal pattern.
C16_AlwaysPathTraversal ==
    (cmResult # NoResult /\ \E i \in 1..Len(cmInput) : HasTraversal(cmInput[i]))
    => cmResult = Err("PathTraversal")

\* C16 amended: for a list that holds a traversal pattern compile_many
\* returns no Patterns: it fails with PathTraversal on reaching the first
\* such pattern, unless an earlier pattern of the list has already failed
\* with its own error; and the turn that meets a traversal pattern compiles
\* nothing and leaves the regex cache as it was.
C16_TraversalRejected ==
    /\ [](cmResult # NoResult /\ (\E i \in 1..Len(cmInput) : HasTraversal(cmInput[i]))
          => LET first == CHOOSE i \in 1..Len(cmInput) :
                             /\ HasTraversal(cmInput[i])
                             /\ \A j \in 1..(i - 1) : ~HasTraversal(cmInput[j])
                 taken == Len(cmInput) - Len(cmLeft)
             IN /\ cmResult.tag = "Err"
                /\ \/ cmResult = Err("PathTraversal") /\ taken = first
                   \/ cmResult # Err("PathTraversal") /\ taken < first)
    /\ [][(cmResult = NoResult /\ cmLeft # <<>> /\ HasTraversal(Head(cmLeft)))
          => /\ cmResult' = Err("PathTraversal")
             /\ UNCHANGED <<cmGlobs, cmRegexes, lru, metrics, lookups>>]_vars

\* A regex is compiled and cached, then the traversal pattern after it ends
\* the call.
C16_Witness ==
    /\ cmInput = << <<"r", "e", ":", "\\", ".", "m", "d", "$">>, <<"*", "*", "/", ".", ".">> >>
    /\ cmResult = Err("PathTraversal")
    /\ cmLeft = <<>>
    /\ Len(lru["regex"]) = 1

\* C17: is_match is true exactly if the glob set is not empty and matches the
\* path or some regex of the list matches it; Patterns compiled from no
\* pattern, or from blank patterns only, match no path.
C17_IsMatch ==
    cmMatch # NoResult =>
      /\ cmMatch.result =
            (\/ /\ cmResult.value.set # {}
                /\ \E g \in cmResult.value.set : TextMatches(g, cmMatch.path)
             \/ \E i \in 1..Len(cmResult.value.regexes) :
                   TextMatches(cmResult.value.regexes[i], cmMatch.path))
      /\ (\A i \in 1..Len(cmInput) : trim(cmInput[i]) = <<>>)
            => /\ cmResult = Ok([set |-> {}, regexes |-> <<>>])
               /\ cmMatch.result = FALSE

\* Blank patterns only: nothing matches. A regex that does not match the
\* path, next to no glob: no match either.
C17_Witness ==
    \/ /\ cmInput = << <<>>, <<" ", "\t">> >>
       /\ cmMatch # NoResult
       /\ cmMatch.result = FALSE
    \/ /\ cmInput = << <<"r", "e", ":", "\\", ".", "m", "d", "$">> >>
       /\ cmMatch = [path |-> <<"root", "a.txt">>, result |-> FALSE]

----------------------------------------------------------------------------
\* Properties of the translation of extended patterns.

MicroDone == mmResult # NoResult

IsRaw(pat) == Len(pat) >= 3 /\ SubSeq(pat, 1, 3) = <<"r", "e", ":">>

\* Alternatives of letters only, separated by "|".
PlainAlternatives == {<<"a">>, <<"a", "|", "b">>, <<"a", "b", "|", "c">>}

\* The quantified group the operator stands for.
QuantifiedGroup(op, alts) ==
    IF op = "!" THEN <<"(", "?", "!", "(", "?", ":">> \o alts \o <<")", ")", ".", "*">>
    ELSE <<"(", "?", ":">> \o alts \o <<")">> \o (IF op = "@" THEN <<>> ELSE <<op>>)

\* C23: an operator followed by a group of plain alternatives translates to
\* the quantified non-capturing group, between ^ and $: ?(A|B) to (?:A|B)?,
\* *(A|B) to (?:A|B)*, +(A|B) to (?:A|B)+, @(A|B) to (?:A|B) and !(A|B) to
\* (?!(?:A|B)).*.
C23_QuantifiedExtglob ==
    \A op \in Operators : \A alts \in PlainAlternatives :
        (MicroDone /\ mmInput = <<op, "(">> \o alts \o <<")">>)
        => mmResult = Ok(<<"^">> \o QuantifiedGroup(op, alts) \o <<"$">>)

\* The regex text has no "|" outside every group, no ")" that closes nothing,
\* no "(" left open, and no "]" or "}" outside a character class, escaped
\* characters aside.
RECURSIVE BodyClean(_, _, _, _)
BodyClean(body, i, depth, class) ==
    IF i > Len(body) THEN depth = 0 /\ ~class
    ELSE IF body[i] = "\\" THEN BodyClean(body, i + 2, depth, class)
    ELSE IF class THEN BodyClean(body, i + 1, depth, body[i] # "]")
    ELSE IF body[i] = "[" THEN BodyClean(body, i + 1, depth, TRUE)
    ELSE IF body[i] = "(" THEN BodyClean(body, i + 1, depth + 1, FALSE)
    ELSE IF body[i] = ")" THEN depth > 0 /\ BodyClean(body, i + 1, depth - 1, FALSE)
    ELSE IF body[i] = "|" THEN depth > 0 /\ BodyClean(body, i + 1, depth, FALSE)
    ELSE IF body[i] \in {"]", "}"} THEN FALSE
    ELSE BodyClean(body, i + 1, depth, FALSE)

\* C24: for a pattern that does not start with `re:` the regex returned is
\* ^body$ and body must match the whole string: body has no unescaped "|"
\* outside its groups and no unescaped stray "(", ")", "]" or "}".
C24_WholeString ==
    (MicroDone /\ ~IsRaw(mmInput) /\ mmResult.tag = "Ok") =>
      /\ Len(mmResult.value) >= 2
      /\ Head(mmResult.value) = "^"
      /\ mmResult.value[Len(mmResult.value)] = "$"
      /\ BodyClean(SubSeq(mmResult.value, 2, Len(mmResult.value) - 1), 1, 0, FALSE)

\* The unescaped characters of the pattern, in order.
Unescaped(pat) ==
    LET ts == tokenize(pat)
    IN [k \in 1..Len(ts) |-> IF ts[k].escaped THEN "" ELSE ts[k].c]

\* Some opener of the pair has no closer after it or some closer no opener
\* before it.
UnbalancedPair(cs, open, close) ==
    LET level(i) == Cardinality({j \in 1..i : cs[j] = open})
                    - Cardinality({j \in 1..i : cs[j] = close})
    IN level(Len(cs)) # 0 \/ \E i \in 1..Len(cs) : level(i) < 0

\* C25: a pattern with an unmatched "(", "[", "{", ")", "]" or "}" is refused
\* with InvalidPattern.
C25_UnbalancedInvalid ==
    (/\ MicroDone
     /\ ~IsRaw(mmInput)
     /\ \/ UnbalancedPair(Unescaped(mmInput), "(", ")")
        \/ UnbalancedPair(Unescaped(mmInput), "[", "]")
        \/ UnbalancedPair(Unescaped(mmInput), "{", "}"))
    => mmResult = Err("InvalidPattern")

----------------------------------------------------------------------------
\* Properties of the traversals: symlinks, failures and a dropped stream.

\* C27: with follow_symlinks = false neither traversal emits a symlink, and
\* a symlink makes neither fail: glob_sync does not return the error of a
\* symlink that is not allowed and the stream yields no such error item.
C27_SymlinkSkipped ==
    ~opts.follow_symlinks =>
      /\ \A x \in Range(emitted) :
            /\ x.tag = "Ok" => ~IsSymlink(fsTree, x.path)
            /\ x.tag = "Err" => x.err # "Other"
      /\ syncResult # NoResult =>
            IF syncResult.tag = "Ok"
            THEN \A path \in Range(syncResult.paths) : ~IsSymlink(fsTree, path)
            ELSE syncResult.err # "Other"

\* C28: a step of the stream that yields an error item yields that one item
\* and leaves the driver at its next entry or its next frame; an acquisition
\* that times out yields nothing and leaves the driver at its next entry;
\* and the stream ends only from the top of its loop with the stack empty.
C28_StreamGoesOn ==
    /\ [][(Len(emitted') > Len(emitted) /\ emitted'[Len(emitted')].tag = "Err")
          => /\ emitted' = Append(emitted, emitted'[Len(emitted')])
             /\ dpc' \in {"next", "pop"}]_vars
    /\ [][(dpc = "acquire" /\ permits = 0 /\ dpc' # "acquire")
          => emitted' = emitted /\ dpc' = "next"]_vars
    /\ [][(dpc # "done" /\ dpc' = "done") => (dpc = "pop" /\ stack = <<>>)]_vars

\* The stream ended, and before that it yielded an error for a filesystem
\* call that failed and, later, a file.
C28_Witness ==
    /\ dpc = "done"
    /\ \E i, j \in 1..Len(emitted) :
          /\ i < j
          /\ emitted[i] = [tag |-> "Err", err |-> "Io"]
          /\ emitted[j].tag = "Ok"

\* What BatchIO::stat answers for a path that is not cached, if it is an
\* error.
StatError(path) ==
    IF ~opts.follow_symlinks /\ IsSymlink(fsTree, path) THEN Some("Other")
    ELSE IF Metadata(fsTree, path).tag = "Err" THEN Some("Io")
    ELSE IF Metadata(fsTree, path).meta.readonly THEN Some("PermissionDenied")
    ELSE None

\* The items glob_sync gets from its walk.
SyncWalk ==
    WalkDirFrom(fsTree, opts.follow_symlinks, opts.max_depth, RootOf(opts), 0, {})

\* The item is a file the patterns match, for which the predicates are
\* evaluated, and stat fails for it.
FailsInPredicates(it) ==
    /\ it.tag = "Ok"
    /\ is_path_allowed(it.path, opts.root_dir)
    /\ ~IsDir(fsTree, it.path)
    /\ IsUtf8(fsTree, it.path)
    /\ is_match(patterns, it.path)
    /\ StatError(it.path) # None

\* C29: with predicates set, when stat fails for a file the patterns match
\* and the walk itself has not failed before it, glob_sync returns the error
\* of the first such file, and with it no path.
C29_StatErrorAborts ==
    [][(syncResult = NoResult /\ syncResult' # NoResult /\ opts.predicates # None) =>
         Bind(LAMBDA walk :
                LET failing == {i \in 1..Len(walk) : FailsInPredicates(walk[i])}
                    first == CHOOSE i \in failing : \A j \in failing : i <= j
                IN (failing # {} /\ \A j \in 1..first : walk[j].tag = "Ok")
                   => syncResult' = [tag |-> "Err",
                                     err |-> StatError(walk[first].path)[1]],
              SyncWalk)]_vars

\* glob_sync collected a file, then met a read-only file and returned
\* PermissionDenied.
C29_Witness ==
    /\ syncResult = [tag |-> "Err", err |-> "PermissionDenied"]
    /\ opts.predicates # None
    /\ patterns = [set |-> {<<"*", "*">>}, regexes |-> <<>>]
    /\ matches(opts.predicates[1], Metadata(fsTree, <<"root", "b.md">>).meta)
    /\ RootOf(opts) = <<"root">>

\* The tasks that were running when the stream was dropped.
InFlightAtDrop == IF dropped = None THEN {} ELSE dropped[1]

\* C30: once the stream is dropped its driver reads no directory, takes no
\* entry, acquires no permit, spawns no task and yields nothing; a task that
\* was running when the stream was dropped runs to its end and gives its
\* permit back.
C30_DropStopsDriver ==
    /\ [][dropped # None
          => /\ UNCHANGED <<stack, rd, frame, entry, dpc, visited_links, emitted, dropped>>
             /\ permits' >= permits
             /\ {w.path : w \in workers'} = {w.path : w \in workers}
             /\ \A w \in workers' : w.state = "running" => w \in workers]_vars
    /\ (InFlightAtDrop # {})
          ~> (/\ \A w \in workers : w.path \in InFlightAtDrop => w.state = "finished"
              /\ permits = opts.max_inflight)

\* The stream was dropped with a task in flight; the task has finished and
\* every permit is available.
C30_Witness ==
    /\ InFlightAtDrop # {}
    /\ \E w \in workers : w.path \in InFlightAtDrop /\ w.state = "finished" /\ ~w.permit
    /\ permits = opts.max_inflight
    /\ dpc = "join"

----------------------------------------------------------------------------
\* Further properties of the translation of extended patterns.

\* Patterns of wildcards, letters, dots, parentheses and "|".
WildChars == {"?", "*", "+"}

IsWildPattern(pat) ==
    \A i \in 1..Len(pat) : pat[i] \in WildChars \cup {"a", "b", "c", "x", "y", ".", "(", ")", "|"}

\* Every character translated on its own: ? to ., * to .*, + to .+, a dot
\* escaped, parentheses, "|" and letters copied.
RECURSIVE TokenWise(_)
TokenWise(pat) ==
    IF pat = <<>> THEN <<>>
    ELSE (IF Head(pat) = "?" THEN <<".">>
          ELSE IF Head(pat) \in {"*", "+"} THEN <<".", Head(pat)>>
          ELSE IF Head(pat) = "." THEN <<"\\", ".">>
          ELSE <<Head(pat)>>) \o TokenWise(Tail(pat))

\* A "(" directly followed by ?, * or +.
OperatorInsideParen(pat) ==
    \E i \in 1..(Len(pat) - 1) : pat[i] = "(" /\ pat[i + 1] \in WildChars

BodyOf(alt) ==
    LET r == micromatch_to_regex(alt)
    IN SubSeq(r.value, 2, Len(r.value) - 1)

\* The alternatives of MicroAlternatives, split at "|".
AlternativesOf(alts) == split_char(alts, "|")

RECURSIVE JoinWith(_, _)
JoinWith(parts, sep) ==
    IF parts = <<>> THEN <<>>
    ELSE IF Len(parts) = 1 THEN parts[1]
    ELSE parts[1] \o sep \o JoinWith(Tail(parts), sep)

\* C34: the group of @(A|B) holds the bodies of the translations of A and B:
\* each translation without its own outer ^ and $, also when the body ends
\* in an escaped $ or starts with an escaped ^.
C34_OwnAnchorsRemoved ==
    \A alts \in MicroAlternatives :
        (MicroDone /\ mmInput = <<"@", "(">> \o alts \o <<")">>)
        => mmResult = Ok(<<"^", "(", "?", ":">>
                         \o JoinWith([k \in 1..Len(AlternativesOf(alts)) |->
                                         BodyOf(AlternativesOf(alts)[k])], <<"|">>)
                         \o <<")", "$">>)

\* Patterns of a literal prefix and one brace group of alternatives without
\* delimiters of their own.
BraceGroupInputs ==
    {<<"f", "i", "l", "e", ".", "{", "t", "x", "t", ",", "m", "d", "}">>,
     <<"{", "a", ",", "b", "}">>,
     <<"{", "a", ",", "?", "b", "}">>,
     <<"x", "{", "a", "$", ",", "b", "}">>,
     <<"{", "a", "}">>, <<"{", "?", "}">>, <<"{", "$", "}">>, <<"{", ",", "}">>,
     <<"{", "}">>, <<"a", "{", "}">>}

OpenAt(pat) == CHOOSE i \in 1..Len(pat) : pat[i] = "{"

\* C35: a brace group {A,B,...} translates to (?:A'|B'|...) where A' is the
\* whole translation of A, its own ^ and $ included: file.{txt,md} gives
\* ^file\.(?:^txt$|^md$)$.
C35_BraceKeepsAnchors ==
    /\ \A pat \in BraceGroupInputs :
         (MicroDone /\ mmInput = pat) =>
            LET pieces == split_char(SubSeq(pat, OpenAt(pat) + 1, Len(pat) - 1), ",")
            IN mmResult = Ok(<<"^">> \o TokenWise(SubSeq(pat, 1, OpenAt(pat) - 1))
                             \o <<"(", "?", ":">>
                             \o JoinWith([k \in 1..Len(pieces) |->
                                            micromatch_to_regex(pieces[k]).value], <<"|">>)
                             \o <<")", "$">>)
    /\ (MicroDone /\ mmInput = <<"f", "i", "l", "e", ".", "{", "t", "x", "t", ",", "m", "d", "}">>)
       => mmResult = Ok(<<"^", "f", "i", "l", "e", "\\", ".", "(", "?", ":",
                          "^", "t", "x", "t", "$", "|", "^", "m", "d", "$", ")", "$">>)

\* file.{txt,md} has been translated.
C35_Witness ==
    /\ mmInput = <<"f", "i", "l", "e", ".", "{", "t", "x", "t", ",", "m", "d", "}">>
    /\ mmResult.tag = "Ok"
    /\ Len(mmResult.value) = 22

----------------------------------------------------------------------------
\* Further properties of pattern compilation.

\* C36: no text that contains "/../" or "**/.." reaches the glob-set builder
\* or the regex compiler, also when the text contains it only after brace
\* expansion.
C36_NoTraversalReachesBuilder ==
    /\ \A i \in 1..Len(cmGlobs) : ~HasTraversal(cmGlobs[i])
    /\ \A i \in 1..Len(cmRegexes) : ~HasTraversal(cmRegexes[i])

----------------------------------------------------------------------------
\* Further properties of the streaming walker.

\* C37: whatever max_inflight >= 1 is, at most one task exists at any time;
\* a permit is free whenever the driver asks for one; and an Ok item is
\* yielded only for the entry the driver read last, while it awaits that
\* entry's task, so the Ok items come in the order the entries are read.
C37_OneWorkerInFlight ==
    /\ [](Cardinality(workers) <= 1)
    /\ []((opts.max_inflight >= 1 /\ dpc = "acquire") => permits >= 1)
    /\ [][(Len(emitted') > Len(emitted) /\ emitted'[Len(emitted')].tag = "Ok")
           => /\ dpc = "join"
              /\ emitted' = Append(emitted, [tag |-> "Ok", path |-> entry])
              /\ workers' = {}]_vars

\* With two permits, a second file is being processed after a first was
\* yielded: one task, one permit taken.
C37_Witness ==
    /\ opts.max_inflight = 2
    /\ dpc = "join"
    /\ Cardinality(workers) = 1
    /\ permits = 1
    /\ \E i \in 1..Len(emitted) : emitted[i].tag = "Ok" /\ emitted[i].path # entry

\* C38: a stream that is polled ends, whatever the tree, its symlink loops
\* and follow_symlinks are: no directory is put on the stack twice, no
\* symlink is put on it, and the stream ends with the stack empty.
C38_StreamTerminates ==
    /\ <>(dpc = "done")
    /\ [](\A i, j \in 1..Len(pushes) : pushes[i] = pushes[j] => i = j)
    /\ [](\A i \in 2..Len(pushes) : Node(Lstat(fsTree, pushes[i])).kind = "dir")
    /\ [](dpc = "done" => stack = <<>>)

\* A traversal that follows symlinks has ended on a tree with a symlink
\* from a directory to the root, after it descended two levels.
C38_Witness ==
    /\ "up" \in fsTree
    /\ opts.follow_symlinks
    /\ dpc = "done"
    /\ Len(pushes) >= 3
    /\ <<"root", "d", "up">> \in visited_links

----------------------------------------------------------------------------
\* Properties of the predicates.

\* What one field asks of the metadata; nothing if the field is not set.
MinSizeHolds == prInput.min_size = None \/ prMeta.len >= prInput.min_size[1]
MaxSizeHolds == prInput.max_size = None \/ prMeta.len <= prInput.max_size[1]
FileTypeHolds ==
    \/ prInput.file_type = None
    \/ prInput.file_type = Some("File") /\ prMeta.kind = "file"
    \/ prInput.file_type = Some("Dir") /\ prMeta.kind = "dir"
    \/ prInput.file_type = Some("Symlink") /\ prMeta.kind = "symlink"
MtimeHolds ==
    /\ prInput.mtime_after = None \/ prMeta.mtime >= prInput.mtime_after[1]
    /\ prInput.mtime_before = None \/ prMeta.mtime <= prInput.mtime_before[1]
CtimeHolds ==
    /\ prInput.ctime_after = None \/ prMeta.ctime >= prInput.ctime_after[1]
    /\ prInput.ctime_before = None \/ prMeta.ctime <= prInput.ctime_before[1]

----------------------------------------------------------------------------
\* Properties of get_or_compile_regex under concurrency, and of set_ttl.

\* The time to live in force at an insertion made after the calls
\* `requested` of set_ttl.
TtlInForce(requested) ==
    IF requested = <<>> THEN DEFAULT_TTL ELSE requested[Len(requested)]

\* C32: an entry inserted after set_ttl(t) expires t after its insertion; an
\* entry inserted before the call keeps the expiry instant it was given.
C32_NewTtlApplies ==
    \A i \in 1..Len(lru["regex"]) :
       LET e == lru["regex"][i] IN
       (e.key \in OpKeys /\ puts[e.key] # None)
       => e.expires_at = puts[e.key][1].at + TtlInForce(puts[e.key][1].requested)

\* The entries of the regex cache for key k.
EntriesFor(k) == {i \in 1..Len(lru["regex"]) : lru["regex"][i].key = k}

\* Both threads called with the same pattern, which was not cached, and both
\* have returned; the caches were not cleared meanwhile.
SameKeyAllDone ==
    /\ \A t \in Racers : gpc[t] = "done" /\ gkey[t] = gkey[1]
    /\ puts[gkey[1]] # None
    /\ clears = 0

\* C40: two threads that call get_or_compile_regex at the same time with one
\* pattern that is not cached may each miss, compile and insert; once both
\* have returned the cache has one entry for the pattern, size is the number
\* of entries and both callers have a regex. The evictions counter moves only
\* when a lookup finds an expired entry and when the caches are cleared: not
\* when an insertion replaces an entry or displaces the least recently used.
C40_RaceLeavesOneEntry ==
    /\ [](SameKeyAllDone
          => /\ Cardinality(EntriesFor(gkey[1])) = 1
             /\ metrics["regex"].size = Len(lru["regex"])
             /\ \A t \in Racers : gret[t] = "Ok")
    /\ [][metrics'["regex"].evictions # metrics["regex"].evictions
          => /\ metrics'["regex"].evictions = metrics["regex"].evictions + 1
             /\ \/ clears' = clears + 1
                \/ \E t \in Racers :
                     /\ gpc[t] = "get" /\ gpc'[t] = "compile"
                     /\ \E i \in EntriesFor(gkey[t]) : lru["regex"][i].expires_at <= now]_vars
    /\ [][puts' # puts => metrics'["regex"].evictions = metrics["regex"].evictions]_vars

\* Both threads missed on a full cache, both inserted the same new key: the
\* second insertion replaced the first, the first had displaced the least
\* recently used entry, and no eviction was counted.
C40_Witness ==
    /\ SameKeyAllDone
    /\ Len(lru["regex"]) = MAX_CACHE_SIZE
    /\ gkey[1] = MAX_CACHE_SIZE + 1
    /\ metrics["regex"].misses = MAX_CACHE_SIZE + 2
    /\ metrics["regex"].evictions = 0

====
